---- MODULE Spec2Model ----
(***************************************************************************)
(* Model of nuclide-commons/process.js: the lazily spawned, cancellable    *)
(* process stream (createProcessStream), killProcess and its tree kill,    *)
(* and the output multiplexer (getOutputStream) composed by                *)
(* observeProcess.                                                         *)
(*                                                                         *)
(* One process stream (one descriptor: `opts`) is subscribed to up to      *)
(* MaxSubs times; sub[s] is the state of subscription s and of the         *)
(* process it spawned.  The Node event loop is the scheduler: every action *)
(* is one callback run to completion.                                      *)
(*                                                                         *)
(* Spec: spawn() subscribed to up to MaxSubs times, no killTreeWhenDone.   *)
(* SpecKill: one subscription of spawn(), every way of killing.            *)
(* SpecObserve: one subscription of observeProcess().                      *)
(* SpecExit: observeProcess() with a caller-supplied isExitError.          *)
(* SpecRun: the observeProcess() stream that runCommandDetailed reduces.   *)
(* SpecPs: getDescendantsOfProcess on every small process table.           *)
(* SpecSignal: observeProcess() of a process that reports SIGUSR1 events.  *)
(* SpecInput: one subscription of spawn() with an input for stdin.         *)
(* SpecUnsub: one subscription of spawn() whose kill can fail.             *)
(* SpecParse: parsePsOutput on the tables ps prints.                       *)
(* SpecLimit: limitBufferSize under the maxBuffer each function passes.    *)
(* SpecStreams: spawn() with 'error' events on the stdio streams.          *)
(* SpecOutput: spawn() and getOutputStream() subscribed apart.             *)
(* SpecWalk: the loop of getDescendantsOfProcess on every small snapshot,  *)
(*   forest or not, one iteration per step.                                *)
(* SpecLog: logCall over a long run of process completions (loggedCalls).  *)
(* SpecSockets: the SocketManager of the tunnel (`manager`): the messages  *)
(*   it receives and the events of the sockets it created.                 *)
(***************************************************************************)
EXTENDS Integers, Sequences, FiniteSets, TLC

VARIABLES api, platform, opts, shellEnvLoaded, handles, sub, out, ps,
          loggedCalls, manager

vars == <<api, platform, opts, shellEnvLoaded, handles, sub, out, ps,
          loggedCalls, manager>>

\* ------------------------------------------------------------------ bounds
MaxSubs == 2
MaxChunks == 2       \* 'data' events of a process
MaxBufferOpt == 2    \* the maxBuffer option, when given
ErrBufferOpt == 2    \* the exitErrorBufferSize option, when given
MaxProcs == 3        \* processes in a process-table snapshot
MaxDescendants == 2  \* other processes below a spawned process
MaxInput == 2        \* strings a caller's input observable emits
MaxRows == 2         \* rows of a table printed by ps
MaxLoggedRuns == 210 \* process completions logged by logCall
MaxClients == 2      \* client ids of the tunnel
MaxMessages == 2     \* messages the SocketManager receives
MaxData == 1         \* 'data' events of a socket
MaxStreamErrors == 2 \* 'error' events on the stdio streams of a process

\* --------------------------------------------------------------- constants
Null == "null"
NoCode == -1       \* a null exitCode
NoPid == 0         \* the pid of a handle whose spawn failed
NoTimeout == 0     \* no (or a falsy) timeout option
NoLimit == -2      \* a null maxBuffer option
NoSize == 0        \* no (or a falsy) exitErrorBufferSize option
DefaultExitErrorBufferSize == 2000
DEFAULT_MAX_BUFFER == 104857600
MAX_LOGGED_CALLS == 100
NUM_PRESERVED_HISTORY_CALLS == 50
PidBase == 100
HostPid == 50
TimeoutMs == 5

Subs == DOMAIN sub

\* The exit events a process can emit: exactly one of exitCode and signal is
\* non-null.  SIGUSR1 is the "exit" Node reports without the process ending.
ExitEvents ==
  { [kind |-> "exit", exitCode |-> 0, signal |-> Null],
    [kind |-> "exit", exitCode |-> 1, signal |-> Null],
    [kind |-> "exit", exitCode |-> NoCode, signal |-> "SIGTERM"],
    [kind |-> "exit", exitCode |-> NoCode, signal |-> "SIGUSR1"] }

\* observeProcess reports the exit code: one more code is told apart there.
ObservedExitEvents ==
  ExitEvents \cup { [kind |-> "exit", exitCode |-> 2, signal |-> Null] }

NoExit == [kind |-> "none", exitCode |-> NoCode, signal |-> Null]

\* The objects an 'error' event of the process can carry: a Node system
\* error (has errno), or a plain Error without one.
Absent == "absent"
ErrorObjects ==
  { [name |-> "Error", errno |-> "ENOENT", code |-> "ENOENT",
     path |-> "cmd", syscall |-> "spawn cmd"],
    [name |-> "Error", errno |-> "EPERM", code |-> "EPERM",
     path |-> Absent, syscall |-> "kill"],
    [name |-> "Error", errno |-> Absent, code |-> "ERR_IPC",
     path |-> Absent, syscall |-> Absent] }

NoErr == [name |-> "none"]

\* ------------------------------------------------------------------ errors
ProcessSystemError_NoPath(err, proc) ==
  [name |-> "ProcessSystemError", errno |-> err.errno, code |-> err.code,
   path |-> Absent, syscall |-> err.syscall, process |-> proc]

ProcessSystemError(err, proc) ==
  [name |-> "ProcessSystemError", errno |-> err.errno, code |-> err.code,
   path |-> err.path, syscall |-> err.syscall, process |-> proc]

ProcessTimeoutError(timeout, proc) ==
  [name |-> "ProcessTimeoutError", timeout |-> timeout, process |-> proc]

isRealExit_Any(event) == TRUE

isRealExit(event) == event.signal # "SIGUSR1"

\* The .catch() of createProcessStream: system errors are wrapped.
catchError(err, proc) ==
  IF err.name = "Error" /\ err.errno # Absent
    THEN ProcessSystemError(err, proc)
    ELSE err

ProcessExitError_FixedCode(exitCode, signal, proc, stderr, stdout) ==
  [name |-> "ProcessExitError", exitCode |-> 1, signal |-> signal,
   process |-> proc, stderr |-> stderr, stdout |-> stdout]

ProcessExitError(exitCode, signal, proc, stderr, stdout) ==
  [name |-> "ProcessExitError", exitCode |-> exitCode, signal |-> signal,
   process |-> proc, stderr |-> stderr, stdout |-> stdout]

MaxBufferExceededError(streamName) ==
  [name |-> "MaxBufferExceededError", streamName |-> streamName]

isExitErrorDefault_AnyExit(exit) == exit.exitCode # NoCode \/ exit.signal # Null

isExitErrorDefault_CodeOnly(exit) == exit.exitCode # 0 /\ exit.exitCode # NoCode

isExitErrorDefault(exit) == exit.exitCode # 0

\* ------------------------------------------------------ stream primitives
\* Strings are sequences of characters.
Min(a, b) == IF a < b THEN a ELSE b

slice(str, from, to) == SubSeq(str, from + 1, Min(to, Len(str)))

\* splitStream: the lines completed by a new value (each with its "\n") and
\* the unfinished rest that stays buffered.
RECURSIVE splitLines(_, _, _)
splitLines(str, i, line) ==
  IF i > Len(str) THEN [lines |-> <<>>, current |-> line]
  ELSE IF str[i] = "\n"
    THEN LET rest == splitLines(str, i + 1, <<>>)
         IN  [lines |-> << Append(line, "\n") >> \o rest.lines,
              current |-> rest.current]
    ELSE splitLines(str, i + 1, Append(line, str[i]))

splitStream(current, value) == splitLines(current \o value, 1, <<>>)

\* What splitStream emits when its input ends or fails: the buffered rest.
splitStreamOnEnd(current) == IF current # <<>> THEN << current >> ELSE <<>>

\* limitBufferSize: the new totalSize of a stream after `data`, and whether
\* that exceeds maxBuffer (no limit when the option is null).
limitExceeded_AtLimit(totalSize, maxBuffer) ==
  maxBuffer # NoLimit /\ totalSize >= maxBuffer

limitExceeded(totalSize, maxBuffer) ==
  maxBuffer # NoLimit /\ totalSize > maxBuffer

accumulate_NoCap(acc, data, exitErrorBufferSize) == acc \o data

accumulate_LastN(acc, data, exitErrorBufferSize) ==
  slice(acc \o data, Len(acc \o data) - Min(exitErrorBufferSize, Len(acc \o data)),
        Len(acc \o data))

\* The scan of accumulatedStderr over one stderr message.
accumulate(acc, data, exitErrorBufferSize) ==
  slice(acc \o data, 0, exitErrorBufferSize)

\* --------------------------------------------------------------- kill
killProcess_NoSignal(r, killTree, killTreeSignal) ==
  LET r1 == [r EXCEPT !.wasKilled = TRUE, !.killCalls = @ + 1]
  IN  IF ~killTree
        THEN [r1 EXCEPT !.killJob = "resolved"]
        ELSE [r1 EXCEPT !.killJob = "resolved"]

\* The signal names proc.kill() accepts; it throws on any other name.
SignalNames == {"SIGTERM", "SIGKILL", "SIGUSR1"}

killSettled_Unhandled(r, job) ==
  [r EXCEPT !.killJob = job, !.raised = @ \/ (job = "rejected")]

\* killProcess: _killProcess(..).then(() => {}, error => logger.error(..)).
\* The promise of _killProcess settles as `job`; a rejection is logged.
killSettled(r, job) ==
  [r EXCEPT !.killJob = job,
            !.logged = IF job = "rejected" THEN @ + 1 ELSE @]

\* _killProcess calling proc.kill() without the signal it was given.
killProcess_DefaultSignal(r, killTree, killTreeSignal) ==
  LET r1 == [r EXCEPT !.wasKilled = TRUE, !.killCalls = @ + 1]
  IN  IF ~killTree
        THEN killSettled([r1 EXCEPT !.signals = @ + 1, !.lastSignal = "SIGTERM"],
                         "resolved")
        ELSE IF platform = "win32"
          THEN [r1 EXCEPT !.killJob = "taskkill", !.taskkills = @ + 1]
          ELSE [r1 EXCEPT !.killJob = "ps"]

\* _killProcess up to its first await (it runs synchronously inside
\* killProcess): marks the handle, then either signals the process itself
\* or starts the tree kill of the platform.  A throw of proc.kill()
\* rejects the promise of the async function.
killProcess(r, killTree, killTreeSignal) ==
  LET r1 == [r EXCEPT !.wasKilled = TRUE, !.killCalls = @ + 1]
  IN  IF ~killTree
        THEN IF killTreeSignal # Null /\ killTreeSignal # ""
                  /\ killTreeSignal \notin SignalNames
               THEN killSettled(r1, "rejected")
               ELSE killSettled(
                      [r1 EXCEPT !.signals = @ + 1,
                                 !.lastSignal =
                                   IF killTreeSignal # Null /\ killTreeSignal # ""
                                     THEN killTreeSignal ELSE "SIGTERM"],
                      "resolved")
        ELSE IF platform = "win32"
          THEN [r1 EXCEPT !.killJob = "taskkill", !.taskkills = @ + 1]
          ELSE [r1 EXCEPT !.killJob = "ps"]

finallyKill_IfFinished(r) ==
  IF ~r.wasKilled /\ r.finished
    THEN killProcess(r, opts.killTreeWhenDone = TRUE, opts.killTreeSignal)
    ELSE r

finallyKill_IgnoreFinished(r) ==
  IF ~r.wasKilled
    THEN killProcess(r, opts.killTreeWhenDone = TRUE, opts.killTreeSignal)
    ELSE r

\* The .finally() of createProcessStream.
finallyKill(r) ==
  IF ~r.wasKilled /\ ~r.finished
    THEN killProcess(r, opts.killTreeWhenDone = TRUE, opts.killTreeSignal)
    ELSE r

InitSub_Eager ==
  [ phase |-> "idle", spawnEnd |-> "none", spawnErr |-> NoErr, proc |-> 1,
    pid |-> PidBase + 1, emitted |-> 0, finished |-> FALSE, wasKilled |-> FALSE,
    killCalls |-> 0, signals |-> 0, lastSignal |-> Null, killJob |-> "none",
    taskkills |-> 0, psRoot |-> "none", os |-> "running", exitEv |-> NoExit,
    killed |-> <<>>, answers |-> <<>>, signalled |-> {},
    listeners |-> {}, input |-> "none", stdin |-> <<>>,
    logged |-> 0, raised |-> FALSE,
    streamErrors |-> 0, streamLog |-> <<>>, unhandled |-> FALSE,
    taskkillError |-> "none" ]

\* ------------------------------------------------------------------ state
InitSub ==
  [ phase |-> "idle",        \* idle, waitEnv, live, ended (the spawn() stream)
    spawnEnd |-> "none",     \* how the spawn() stream ended
    spawnErr |-> NoErr,
    proc |-> 0,              \* the handle child_process.spawn returned (0: none)
    pid |-> NoPid,
    emitted |-> 0,           \* handles emitted by the spawn() stream
    finished |-> FALSE,
    wasKilled |-> FALSE,
    killCalls |-> 0,         \* calls of killProcess
    signals |-> 0,           \* proc.kill() / process.kill(pid) calls on the process
    lastSignal |-> Null,
    killJob |-> "none",      \* none, ps, taskkill, resolved, rejected
    taskkills |-> 0,         \* taskkill commands run on the process
    psRoot |-> "none",       \* the process-table query: failed, listed, missing
    os |-> "none",           \* none, spawnFailed, running, errored, exited, closed
    exitEv |-> NoExit,       \* the exit event that the 'close' event will repeat
    killed |-> <<>>,         \* the pids process.kill(pid) was called on, in order
    answers |-> <<>>,        \* what process.kill(pid) answered to each call
    signalled |-> {},        \* the SIGUSR1 events ('exit', 'close') emitted
    listeners |-> {},        \* the process events this subscription listens to
    input |-> "none",        \* none, open, done (the subscription to `input`)
    stdin |-> <<>>,          \* the calls made on proc.stdin, in order
    logged |-> 0,            \* kill failures passed to logger.error
    raised |-> FALSE,        \* a kill failure escaped killProcess
    streamErrors |-> 0,      \* 'error' events emitted by the stdio streams
    streamLog |-> <<>>,      \* the stream names logStreamErrors logged, in order
    unhandled |-> FALSE,     \* a stream 'error' event found no listener
    taskkillError |-> "none" ] \* the error exec() passed to the taskkill callback

Streams == {"stdout", "stderr"}

\* closeEvents (publishReplay) before the 'close' event.
NoReplay == [kind |-> "none", event |-> NoExit, proc |-> 0, stderr |-> <<>>]

\* The observeProcess() stream of a subscription: spawn().flatMap(
\* getOutputStream).
InitOut ==
  [ result |-> "none",       \* none, complete, error, unsub
    err |-> NoErr,
    delivered |-> <<>>,      \* the messages the subscriber received
    inner |-> "none",        \* none, live, done (the getOutputStream subscription)
    ended |-> [st \in Streams |-> FALSE],     \* 'end' was emitted
    totalSize |-> [st \in Streams |-> 0],     \* limitBufferSize
    current |-> [st \in Streams |-> <<>>],    \* splitStream
    recv |-> [st \in Streams |-> <<>>],       \* the 'data' chunks received
    acc |-> <<>>,            \* latest value of accumulatedStderr
    accDone |-> FALSE,       \* accumulatedStderr has completed
    closeEvents |-> NoReplay,      \* what the connected closeEvents replays
    deliveredAtClose |-> 0 ] \* messages delivered when 'close' arrived

\* ------------------------------------------------------ process tables
\* A process table is a sequence of ProcessInfo rows.  It is a forest when
\* no pid is listed twice and no process is its own ancestor.
listedPids(processes) == {processes[i].pid : i \in 1..Len(processes)}

parentPidOf(processes, pid) ==
  processes[CHOOSE i \in 1..Len(processes) : processes[i].pid = pid].parentPid

\* Climbing from pid through at most k listed processes leaves the table.
RECURSIVE leavesTable(_, _, _)
leavesTable(processes, pid, k) ==
  IF pid \notin listedPids(processes) THEN TRUE
  ELSE IF k = 0 THEN FALSE
  ELSE leavesTable(processes, parentPidOf(processes, pid), k - 1)

IsForest(processes) ==
  /\ \A i, j \in 1..Len(processes) :
       processes[i].pid = processes[j].pid => i = j
  /\ \A i \in 1..Len(processes) :
       leavesTable(processes, processes[i].parentPid, Len(processes))

\* The forests of at most n rows with these pids and parent pids, in every
\* order of the rows.
ProcessTables(pids, parentPids, n) ==
  {<<>>} \cup UNION { { q \in [1..k -> [parentPid : parentPids, pid : pids]] :
                          IsForest(q) } : k \in 1..n }

\* ------------------------------------------------------- SocketManager
ClientIds == 1..MaxClients

NoSocket == 0

\* The events of the messages a socket listener sends.
SentEvents == {"error", "data", "end", "close"}

NoMessage == [event |-> "none", clientId |-> 0, socket |-> NoSocket]

\* new SocketManager(..): no socket, nothing sent on the transport.
NewManager ==
  [ socketByClientId |-> [c \in ClientIds |-> NoSocket],
    sockets |-> <<>>,        \* the sockets net.createConnection returned
    sent |-> [c \in ClientIds |-> [e \in SentEvents |-> 0]],
                             \* the messages sent on the transport, counted
    received |-> 0,          \* messages passed to receive()
    last |-> NoMessage,      \* the last of them, and the socket get() found
    thrown |-> FALSE ]       \* an exception left a handler

\* ------------------------------------------------------------- logCall
StrippedMarker == "... history stripped ..."

\* new Date() of a call of logCall: the clock has moved on since the entry
\* logged last.
now(calls) == IF calls = <<>> THEN 1 ELSE calls[Len(calls)].time + 1

\* loggedCalls.splice(0, loggedCalls.length - NUM_PRESERVED_HISTORY_CALLS,
\* marker): the marker takes the place of all but the last entries.
stripHistory_KeepAll(calls, time) == calls

stripHistory(calls, time) ==
  IF Len(calls) > MAX_LOGGED_CALLS
    THEN << [command |-> StrippedMarker, duration |-> 0, time |-> time] >>
           \o SubSeq(calls, Len(calls) - NUM_PRESERVED_HISTORY_CALLS + 1,
                      Len(calls))
    ELSE calls

\* logCall(duration, command, args): trims the history when it has grown
\* beyond MAX_LOGGED_CALLS, then pushes the call.
logCall(calls, duration, command) ==
  Append(stripHistory(calls, now(calls)),
         [command |-> command, duration |-> duration, time |-> now(calls)])

\* ps: the other processes of the system (apart from those this program
\* spawned), and the last application of getDescendantsOfProcess.
NoPs ==
  [ processes |-> <<>>, pid |-> NoPid, descendants |-> <<>>, phase |-> "idle",
    table |-> <<>>,          \* the rows the ps command prints
    argsTable |-> <<>>,      \* the rows the ps command for the args prints
    psOutput |-> <<>>,       \* the text of the first, as a sequence of characters
    argsOutput |-> <<>>,     \* the text of the second
    argsGiven |-> FALSE,     \* argsOutput is not null
    parsed |-> <<>>,         \* what parsePsOutput returned
    index |-> 0 ]            \* the i of the loop of getDescendantsOfProcess

\* The pids of the processes that may run below a spawned process.
DescendantPids == (2 * PidBase + 1)..(2 * PidBase + MaxDescendants)

\* The options of spawn() without killTreeWhenDone: the output options keep
\* their defaults.
SpawnOptionSets ==
  [ timeout : {NoTimeout, TimeoutMs},
    killTreeWhenDone : {FALSE},
    killTreeSignal : {Null, "SIGKILL"},
    maxBuffer : {NoLimit},
    splitByLines : {TRUE},
    exitErrorBufferSize : {NoSize},
    isExitError : {Null},
    input : {Null} ]

\* The options of spawn(), killTreeWhenDone included.
KillOptionSets ==
  [ timeout : {NoTimeout, TimeoutMs},
    killTreeWhenDone : {FALSE, TRUE},
    killTreeSignal : {Null, "SIGKILL"},
    maxBuffer : {NoLimit},
    splitByLines : {TRUE},
    exitErrorBufferSize : {NoSize},
    isExitError : {Null},
    input : {Null} ]

ObserveOptionSets ==
  [ timeout : {NoTimeout, TimeoutMs},
    killTreeWhenDone : {FALSE, TRUE},
    killTreeSignal : {Null},
    maxBuffer : {NoLimit, MaxBufferOpt},
    splitByLines : {TRUE, FALSE},
    exitErrorBufferSize : {NoSize, ErrBufferOpt},
    isExitError : {Null},
    input : {Null} ]

\* The process stream is built; nothing is subscribed and nothing spawned.
\* It will be subscribed to up to MaxSubs times.
Init ==
  /\ api = "spawn"
  /\ platform \in {"linux", "win32"}
  /\ opts \in SpawnOptionSets
  /\ shellEnvLoaded = FALSE
  /\ handles = 0
  /\ ps = NoPs
  /\ sub = [s \in 1..MaxSubs |-> InitSub]
  /\ out = [s \in 1..MaxSubs |-> InitOut]
  /\ loggedCalls = <<>>
  /\ manager = NewManager

\* One subscription of spawn(), with every way of killing the process.
InitKill ==
  /\ api = "spawn"
  /\ platform \in {"linux", "win32"}
  /\ opts \in KillOptionSets
  /\ shellEnvLoaded = FALSE
  /\ handles = 0
  /\ ps \in { [NoPs EXCEPT !.processes = q] :
               q \in IF opts.killTreeWhenDone /\ platform = "linux"
                       THEN ProcessTables(DescendantPids,
                              {HostPid, PidBase + 1} \cup DescendantPids,
                              MaxDescendants)
                       ELSE {<<>>} }
  /\ sub = [s \in {1} |-> InitSub]
  /\ out = [s \in {1} |-> InitOut]
  /\ loggedCalls = <<>>
  /\ manager = NewManager

\* The predicates a caller passes as the isExitError option: one that fails
\* no exit, and one that fails the exits by a signal.
CallerPredicates == {"never", "onSignal"}

\* The options of observeProcess() with a caller's isExitError.
ExitOptionSets ==
  [ timeout : {NoTimeout},
    killTreeWhenDone : {FALSE},
    killTreeSignal : {Null},
    maxBuffer : {NoLimit, MaxBufferOpt},
    splitByLines : {TRUE, FALSE},
    exitErrorBufferSize : {NoSize},
    isExitError : {Null} \cup CallerPredicates,
    input : {Null} ]

\* One subscription of observeProcess() with or without a caller's
\* isExitError.
InitExit ==
  /\ api = "observeProcess"
  /\ platform = "linux"
  /\ opts \in ExitOptionSets
  /\ shellEnvLoaded = FALSE
  /\ handles = 0
  /\ ps = NoPs
  /\ sub = [s \in {1} |-> InitSub]
  /\ out = [s \in {1} |-> InitOut]
  /\ loggedCalls = <<>>
  /\ manager = NewManager

runMaxBuffer_NoDefault(maxBuffer) == maxBuffer

\* runCommandDetailed: the maxBuffer it passes to observeProcess().
runMaxBuffer(maxBuffer) ==
  IF maxBuffer # NoLimit /\ maxBuffer # 0 THEN maxBuffer ELSE DEFAULT_MAX_BUFFER

\* The options a caller gives to runCommand() or runCommandDetailed().
RunOptionSets ==
  [ timeout : {NoTimeout},
    killTreeWhenDone : {FALSE},
    killTreeSignal : {Null},
    maxBuffer : {NoLimit, MaxBufferOpt},
    splitByLines : {TRUE, FALSE},
    exitErrorBufferSize : {NoSize, ErrBufferOpt},
    isExitError : {Null} \cup CallerPredicates,
    input : {Null} ]

\* One subscription of runCommandDetailed(): the observeProcess() stream it
\* subscribes to, with the options it passes.
InitRun ==
  /\ api = "observeProcess"
  /\ platform = "linux"
  /\ opts \in { [o EXCEPT !.maxBuffer = runMaxBuffer(@)] : o \in RunOptionSets }
  /\ shellEnvLoaded = FALSE
  /\ handles = 0
  /\ ps = NoPs
  /\ sub = [s \in {1} |-> InitSub]
  /\ out = [s \in {1} |-> InitOut]
  /\ loggedCalls = <<>>
  /\ manager = NewManager

DefaultOptions ==
  [ timeout |-> NoTimeout, killTreeWhenDone |-> FALSE, killTreeSignal |-> Null,
    maxBuffer |-> NoLimit, splitByLines |-> TRUE, exitErrorBufferSize |-> NoSize,
    isExitError |-> Null, input |-> Null ]

\* A process-table snapshot that getDescendantsOfProcess will be applied to.
InitPs ==
  /\ api = "getDescendantsOfProcess"
  /\ platform = "linux"
  /\ opts = DefaultOptions
  /\ shellEnvLoaded = FALSE
  /\ handles = 0
  /\ ps \in { [NoPs EXCEPT !.processes = q] :
               q \in ProcessTables(1..MaxProcs, 0..MaxProcs, MaxProcs) }
  /\ sub = [s \in {1} |-> InitSub]
  /\ out = [s \in {1} |-> InitOut]
  /\ loggedCalls = <<>>
  /\ manager = NewManager

\* One subscription of observeProcess().
InitObserve ==
  /\ api = "observeProcess"
  /\ platform = "linux"
  /\ opts \in ObserveOptionSets
  /\ shellEnvLoaded = FALSE
  /\ handles = 0
  /\ ps = NoPs
  /\ sub = [s \in {1} |-> InitSub]
  /\ out = [s \in {1} |-> InitOut]
  /\ loggedCalls = <<>>
  /\ manager = NewManager

\* The options of spawn(), with a killTreeSignal that is no signal name.
UnsubOptionSets ==
  [ timeout : {NoTimeout},
    killTreeWhenDone : {FALSE, TRUE},
    killTreeSignal : {Null, "", "SIGKILL", "SIGBOGUS"},
    maxBuffer : {NoLimit},
    splitByLines : {TRUE},
    exitErrorBufferSize : {NoSize},
    isExitError : {Null},
    input : {Null} ]

\* One subscription of spawn() whose kill can fail in every way.
InitUnsub ==
  /\ api = "spawn"
  /\ platform \in {"linux", "win32"}
  /\ opts \in UnsubOptionSets
  /\ shellEnvLoaded = FALSE
  /\ handles = 0
  /\ ps \in { [NoPs EXCEPT !.processes = q] :
               q \in IF opts.killTreeWhenDone /\ platform = "linux"
                       THEN ProcessTables(DescendantPids,
                              {HostPid, PidBase + 1} \cup DescendantPids,
                              MaxDescendants)
                       ELSE {<<>>} }
  /\ sub = [s \in {1} |-> InitSub]
  /\ out = [s \in {1} |-> InitOut]
  /\ loggedCalls = <<>>
  /\ manager = NewManager

\* The options of spawn() with an input: a string or an observable.
InputOptionSets ==
  [ timeout : {NoTimeout, TimeoutMs},
    killTreeWhenDone : {FALSE},
    killTreeSignal : {Null},
    maxBuffer : {NoLimit},
    splitByLines : {TRUE},
    exitErrorBufferSize : {NoSize},
    isExitError : {Null},
    input : {"string", "observable"} ]

\* One subscription of spawn() with an input.
InitInput ==
  /\ api = "spawn"
  /\ platform = "linux"
  /\ opts \in InputOptionSets
  /\ shellEnvLoaded = FALSE
  /\ handles = 0
  /\ ps = NoPs
  /\ sub = [s \in {1} |-> InitSub]
  /\ out = [s \in {1} |-> InitOut]
  /\ loggedCalls = <<>>
  /\ manager = NewManager

\* One subscription of observeProcess() to a process that may report
\* SIGUSR1 'exit' and 'close' events while it keeps running.
InitSignal ==
  /\ api = "observeProcess"
  /\ platform = "linux"
  /\ opts = DefaultOptions
  /\ shellEnvLoaded = FALSE
  /\ handles = 0
  /\ ps = NoPs
  /\ sub = [s \in {1} |-> InitSub]
  /\ out = [s \in {1} |-> InitOut]
  /\ loggedCalls = <<>>
  /\ manager = NewManager

\* ---------------------------------------------------------------- helpers
\* The observeProcess() stream ends: by completion, by an error or by the
\* subscriber; the getOutputStream subscription ends with it.
topEnd(o, how, err) ==
  [o EXCEPT !.result = how, !.err = err,
            !.inner = IF @ = "live" THEN "done" ELSE @]

callPredicate(predicate, exit) ==
  IF predicate = "never" THEN FALSE ELSE exit.signal # Null

isExitError_DefaultOnly(exit) == isExitErrorDefault(exit)

\* isExitError of getOutputStream: the option, or isExitErrorDefault.
isExitError(exit) ==
  IF opts.isExitError # Null THEN callPredicate(opts.isExitError, exit)
  ELSE isExitErrorDefault(exit)

exitErrorBufferSize == 
  IF opts.exitErrorBufferSize # NoSize THEN opts.exitErrorBufferSize
  ELSE DefaultExitErrorBufferSize

\* accumulatedStderr over the stderr messages msgs[i..]: scan, then
\* takeWhileInclusive(acc.length < exitErrorBufferSize).
RECURSIVE accumulatedStderr(_, _, _)
accumulatedStderr(a, msgs, i) ==
  IF i > Len(msgs) \/ a.accDone THEN a
  ELSE LET acc == accumulate(a.acc, msgs[i], exitErrorBufferSize)
       IN  accumulatedStderr(
             [acc |-> acc, accDone |-> ~(Len(acc) < exitErrorBufferSize)],
             msgs, i + 1)

\* emit, delivering the new messages ahead of the ones already delivered.
emit_NewestFirst(o, st, msgs) ==
  [o EXCEPT !.delivered = [i \in 1..Len(msgs) |-> [kind |-> st, data |-> msgs[i]]] \o @]

\* The messages of stream st reach accumulatedStderr (the first subscriber
\* of the shared stderrEvents) and then the merged output.
emit(o, st, msgs) ==
  LET a == IF st = "stderr"
             THEN accumulatedStderr([acc |-> o.acc, accDone |-> o.accDone], msgs, 1)
             ELSE [acc |-> o.acc, accDone |-> o.accDone]
  IN  [o EXCEPT !.delivered = @ \o [i \in 1..Len(msgs) |-> [kind |-> st, data |-> msgs[i]]],
                !.acc = a.acc, !.accDone = a.accDone]

splitByLines == opts.splitByLines # FALSE

onData_SharedTotal(o, st, data) ==
  LET total    == o.totalSize[st] + Len(data)
      exceeded == limitExceeded(o.totalSize["stdout"] + o.totalSize["stderr"]
                                  + Len(data), opts.maxBuffer)
      sp       == splitStream(o.current[st], data)
      msgs     == IF exceeded
                    THEN (IF splitByLines THEN splitStreamOnEnd(o.current[st]) ELSE <<>>)
                    ELSE (IF splitByLines THEN sp.lines ELSE << data >>)
      cur      == IF ~exceeded /\ splitByLines THEN sp.current ELSE <<>>
      o1       == emit([o EXCEPT !.totalSize[st] = total, !.current[st] = cur,
                                 !.recv[st] = Append(@, data)], st, msgs)
  IN  IF exceeded THEN topEnd(o1, "error", MaxBufferExceededError(st)) ELSE o1

\* A 'data' event of stream st in getOutputStream: limitBufferSize, chunk
\* (splitStream or the identity), map to messages.
onData(o, st, data) ==
  LET total    == o.totalSize[st] + Len(data)
      exceeded == limitExceeded(total, opts.maxBuffer)
      sp       == splitStream(o.current[st], data)
      msgs     == IF exceeded
                    THEN (IF splitByLines THEN splitStreamOnEnd(o.current[st]) ELSE <<>>)
                    ELSE (IF splitByLines THEN sp.lines ELSE << data >>)
      cur      == IF ~exceeded /\ splitByLines THEN sp.current ELSE <<>>
      o1       == emit([o EXCEPT !.totalSize[st] = total, !.current[st] = cur,
                                 !.recv[st] = Append(@, data)], st, msgs)
  IN  IF exceeded THEN topEnd(o1, "error", MaxBufferExceededError(st)) ELSE o1

concatCloseEvents_ExitThenError(o) ==
  IF o.inner # "live" \/ o.closeEvents.kind = "none"
       \/ \E st \in Streams : ~o.ended[st]
    THEN o
  ELSE IF o.closeEvents.kind = "error"
    THEN topEnd([o EXCEPT !.delivered = Append(@, o.closeEvents.event)], "error",
           ProcessExitError(o.closeEvents.event.exitCode,
                            o.closeEvents.event.signal, o.closeEvents.proc,
                            o.closeEvents.stderr, Null))
    ELSE topEnd([o EXCEPT !.delivered = Append(@, o.closeEvents.event)],
                "complete", NoErr)

\* concat(closeEvents): once stdoutEvents and stderrEvents have both
\* completed, the merged stream subscribes to closeEvents, which replays
\* the exit message (takeWhileInclusive then completes) or the error.
concatCloseEvents(o) ==
  IF o.inner # "live" \/ o.closeEvents.kind = "none"
       \/ \E st \in Streams : ~o.ended[st]
    THEN o
  ELSE IF o.closeEvents.kind = "error"
    THEN topEnd(o, "error",
           ProcessExitError(o.closeEvents.event.exitCode,
                            o.closeEvents.event.signal, o.closeEvents.proc,
                            o.closeEvents.stderr, Null))
    ELSE topEnd([o EXCEPT !.delivered = Append(@, o.closeEvents.event)],
                "complete", NoErr)

\* The 'end' event of stream st: splitStream flushes its rest and the
\* stream of st completes.
onEnd(o, st) ==
  LET o1 == [o EXCEPT !.ended[st] = TRUE]
  IN  IF o.inner # "live" THEN o1
      ELSE concatCloseEvents(
             emit([o1 EXCEPT !.current[st] = <<>>], st,
                  IF splitByLines THEN splitStreamOnEnd(o.current[st]) ELSE <<>>))

onClose_NoConcat(o, event, proc) ==
  IF o.inner # "live" \/ ~isRealExit(event) \/ o.closeEvents.kind # "none" THEN o
  ELSE LET o1 == [o EXCEPT !.closeEvents =
                     [kind |-> IF isExitError(event) THEN "error" ELSE "next",
                      event |-> event, proc |-> proc, stderr |-> o.acc],
                   !.deliveredAtClose = Len(o.delivered)]
       IN  IF isExitError(event)
             THEN topEnd(o1, "error",
                    ProcessExitError(event.exitCode, event.signal, proc, o.acc, Null))
             ELSE topEnd([o1 EXCEPT !.delivered = Append(@, event)], "complete", NoErr)

\* closeEvents of getOutputStream on the 'close' event: filter(isRealExit),
\* take(1), withLatestFrom(accumulatedStderr), then the map that returns the
\* exit message or throws the ProcessExitError; publishReplay keeps the
\* outcome until the merged stream subscribes.
onClose(o, event, proc) ==
  IF o.inner # "live" \/ ~isRealExit(event) \/ o.closeEvents.kind # "none" THEN o
  ELSE concatCloseEvents(
         [o EXCEPT !.closeEvents =
                     [kind |-> IF isExitError(event) THEN "error" ELSE "next",
                      event |-> event, proc |-> proc, stderr |-> o.acc],
                   !.deliveredAtClose = Len(o.delivered)])

\* ------------------------------------------ runCommand, runCommandDetailed
reduceSeed == [stdout |-> <<>>, stderr |-> <<>>, exitCode |-> NoCode]

RECURSIVE reduceEvents_LastOnly(_, _, _)
reduceEvents_LastOnly(acc, events, i) ==
  IF i > Len(events) THEN acc
  ELSE reduceEvents_LastOnly(
         IF events[i].kind = "stdout" THEN [acc EXCEPT !.stdout = events[i].data]
         ELSE IF events[i].kind = "stderr" THEN [acc EXCEPT !.stderr = events[i].data]
         ELSE [acc EXCEPT !.exitCode = events[i].exitCode],
         events, i + 1)

\* The reduce() of runCommandDetailed over the messages of observeProcess().
RECURSIVE reduceEvents(_, _, _)
reduceEvents(acc, events, i) ==
  IF i > Len(events) THEN acc
  ELSE reduceEvents(
         IF events[i].kind = "stdout" THEN [acc EXCEPT !.stdout = @ \o events[i].data]
         ELSE IF events[i].kind = "stderr" THEN [acc EXCEPT !.stderr = @ \o events[i].data]
         ELSE [acc EXCEPT !.exitCode = events[i].exitCode],
         events, i + 1)

runCommandDetailed_TruncatedStderr(o) ==
  LET acc == reduceEvents(reduceSeed, o.delivered, 1)
  IN  IF o.result = "complete"
        THEN [result |-> "complete", values |-> << acc >>, err |-> NoErr]
      ELSE IF o.result = "error" /\ o.err.name = "ProcessExitError"
        THEN [result |-> "error", values |-> <<>>,
              err |-> ProcessExitError(o.err.exitCode, o.err.signal,
                                       o.err.process, o.err.stderr, acc.stdout)]
      ELSE [result |-> o.result, values |-> <<>>, err |-> o.err]

\* What the subscriber of runCommandDetailed() has got when its
\* observeProcess() stream is o: catch() turns a ProcessExitError into a
\* last event, on which reduce() throws the ProcessExitError with the
\* accumulated stderr and stdout; other errors pass; on completion reduce()
\* emits the accumulated value.
runCommandDetailed(o) ==
  LET acc == reduceEvents(reduceSeed, o.delivered, 1)
  IN  IF o.result = "complete"
        THEN [result |-> "complete", values |-> << acc >>, err |-> NoErr]
      ELSE IF o.result = "error" /\ o.err.name = "ProcessExitError"
        THEN [result |-> "error", values |-> <<>>,
              err |-> ProcessExitError(o.err.exitCode, o.err.signal,
                                       o.err.process, acc.stderr, acc.stdout)]
      ELSE [result |-> o.result, values |-> <<>>, err |-> o.err]

\* runCommand: runCommandDetailed().map(event => event.stdout).
runCommand(o) ==
  LET detailed == runCommandDetailed(o)
  IN  [detailed EXCEPT !.values =
         [i \in 1..Len(detailed.values) |-> detailed.values[i].stdout]]

createProcess_Cached(r, h, ok) ==
  [r EXCEPT !.phase = "live",
            !.listeners = {"error", "exit", "streamError", "streamErrorLog"},
            !.proc = 1,
            !.pid = IF ok THEN PidBase + 1 ELSE NoPid,
            !.os = IF ok THEN "running" ELSE "spawnFailed",
            !.emitted = IF ok THEN 1 ELSE 0]

\* ---------------------------------------------------------------- actions
\* errors.connect(): the 'error' listener is attached when the switchMap
\* body runs, before the stream it returns is subscribed to.
connectErrors(r) == [r EXCEPT !.listeners = @ \cup {"error"}]

\* takeUntil(exitEvents) subscribes to its notifier, which attaches the
\* 'exit' listener, before it subscribes to its source.
subscribeExitEvents(r) == [r EXCEPT !.listeners = @ \cup {"exit"}]

\* One call on proc.stdin, with the listeners attached when it is made.
stdinCall(r, op, data) ==
  [r EXCEPT !.stdin = Append(@, [op |-> op, data |-> data,
                                 listeners |-> r.listeners])]

\* The merged input: a string is Observable.of(string), written and ended
\* when the merge subscribes; a caller's observable emits later.
subscribeInput(r) ==
  IF opts.input = Null THEN r
  ELSE IF opts.input = "string"
    THEN [stdinCall(stdinCall(r, "write", 1), "end", 0) EXCEPT !.input = "done"]
  ELSE [r EXCEPT !.input = "open"]

\* child_process[type]() returns handle h; the handle is emitted unless it
\* has no pid (ok = FALSE: the spawn failed, an 'error' event is to come).
spawnHandle(r, h, ok) ==
  [r EXCEPT !.phase = "live",
            !.proc = h,
            !.pid = IF ok THEN PidBase + h ELSE NoPid,
            !.os = IF ok THEN "running" ELSE "spawnFailed",
            !.emitted = IF ok THEN 1 ELSE 0]

\* preventStreamsFromThrowing(proc): a no-op 'error' listener on stdin,
\* stdout and stderr, attached right after the spawn and never disposed of.
preventStreamsFromThrowing_Skipped(r) == r

preventStreamsFromThrowing(r) ==
  [r EXCEPT !.listeners = @ \cup {"streamError"}]

\* Observable.using(() => logStreamErrors(..), ..): the logging 'error'
\* listener is attached when the merge subscribes to its first source and
\* disposed of when the spawn() stream ends or is unsubscribed from.
logStreamErrors(r) == [r EXCEPT !.listeners = @ \cup {"streamErrorLog"}]

disposeStreamLog(r) == [r EXCEPT !.listeners = @ \ {"streamErrorLog"}]

createProcess_InputFirst(r, h, ok) ==
  subscribeExitEvents(subscribeInput(logStreamErrors(
    connectErrors(preventStreamsFromThrowing(spawnHandle(r, h, ok))))))

\* The switchMap body of createProcessStream, run by the callback of
\* whenShellEnvironmentLoaded, and the subscription to what it returns.
createProcess(r, h, ok) ==
  subscribeInput(logStreamErrors(subscribeExitEvents(
    connectErrors(preventStreamsFromThrowing(spawnHandle(r, h, ok))))))

\* observeProcess: flatMap subscribes getOutputStream to an emitted handle.
\* A caller of getOutputStream subscribes it to the handle spawn() emits.
observeHandle(o, ok) ==
  IF api \in {"observeProcess", "getOutputStream"} /\ ok
    THEN [o EXCEPT !.inner = "live"] ELSE o

\* subscribe(): subscription s is the s-th subscribe() call on the stream.
\* whenShellEnvironmentLoaded calls back at once when the environment is
\* loaded (always, outside Atom); otherwise nothing is spawned yet.
Subscribe(s) ==
  /\ sub[s].phase = "idle"
  /\ \A t \in 1..(s - 1) : sub[t].phase # "idle"
  /\ IF shellEnvLoaded
       THEN \E ok \in BOOLEAN :
              /\ handles' = handles + 1
              /\ sub' = [sub EXCEPT ![s] = createProcess(@, handles + 1, ok)]
              /\ out' = [out EXCEPT ![s] = observeHandle(@, ok)]
       ELSE /\ sub' = [sub EXCEPT ![s].phase = "waitEnv"]
            /\ UNCHANGED <<handles, out>>
  /\ UNCHANGED <<loggedCalls, manager, ps, api, platform, opts, shellEnvLoaded>>

\* Atom has loaded the shell environment: the registered callbacks run, in
\* the order of registration, in one tick.
ShellEnvironmentLoaded ==
  /\ ~shellEnvLoaded
  /\ shellEnvLoaded' = TRUE
  /\ LET waiting == {s \in Subs : sub[s].phase = "waitEnv"}
         rank(s) == Cardinality({t \in waiting : t <= s})
     IN  /\ handles' = handles + Cardinality(waiting)
         /\ \E ok \in [waiting -> BOOLEAN] :
              /\ sub' = [s \in Subs |->
                           IF s \in waiting
                             THEN createProcess(sub[s], handles + rank(s), ok[s])
                             ELSE sub[s]]
              /\ out' = [s \in Subs |->
                           IF s \in waiting THEN observeHandle(out[s], ok[s])
                           ELSE out[s]]
  /\ UNCHANGED <<loggedCalls, manager, ps, api, platform, opts>>

endSpawn_NotFinished(r, how, err, fin) ==
  finallyKill([r EXCEPT !.phase = "ended", !.spawnEnd = how, !.spawnErr = err,
                        !.listeners = @ \ {"streamErrorLog"}])

\* Ends the spawn() stream of r: `how` is complete, error or unsub; the
\* do() operator sets `finished` only when the source itself completed or
\* errored (fin); then the finally() callback runs.
endSpawn(r, how, err, fin) ==
  finallyKill(disposeStreamLog(
    [r EXCEPT !.phase = "ended", !.spawnEnd = how, !.spawnErr = err,
              !.finished = (r.finished \/ fin)]))

\* 'error' event of the process.  A handle without pid emits it on the next
\* tick (the spawn failed); a running process emits it when a kill or an
\* IPC send failed.  The connected `errors` observable ends a live stream.
ProcError(s, e) ==
  /\ \/ sub[s].os = "spawnFailed" /\ e.syscall = "spawn cmd"
     \/ sub[s].os = "running" /\ e.syscall # "spawn cmd"
  /\ LET r  == sub[s]
         r1 == [r EXCEPT !.os = IF r.os = "spawnFailed" THEN "errored" ELSE @]
     IN  IF r.phase = "live"
           THEN /\ sub' = [sub EXCEPT ![s] =
                     endSpawn(r1, "error", catchError(e, r.proc), TRUE)]
                /\ out' = [out EXCEPT ![s] =
                     IF api = "observeProcess"
                       THEN topEnd(@, "error", catchError(e, r.proc)) ELSE @]
           ELSE /\ sub' = [sub EXCEPT ![s] = r1]
                /\ UNCHANGED out
  /\ UNCHANGED <<loggedCalls, manager, ps, api, platform, opts, shellEnvLoaded, handles>>

\* 'exit' event of the process.  takeUntil(exitEvents) completes a live
\* spawn() stream on the first real exit; flatMap then completes once the
\* getOutputStream subscription has.
ProcExit(s, ev) ==
  /\ sub[s].os = "running"
  /\ LET r  == sub[s]
         r1 == IF ev.signal = "SIGUSR1" THEN r
               ELSE [r EXCEPT !.os = "exited", !.exitEv = ev]
     IN  IF r.phase = "live" /\ isRealExit(ev)
           THEN /\ sub' = [sub EXCEPT ![s] = endSpawn(r1, "complete", NoErr, TRUE)]
                /\ out' = [out EXCEPT ![s] =
                     IF api = "observeProcess" /\ @.inner # "live"
                       THEN topEnd(@, "complete", NoErr) ELSE @]
           ELSE /\ sub' = [sub EXCEPT ![s] = r1]
                /\ UNCHANGED out
  /\ UNCHANGED <<loggedCalls, manager, ps, api, platform, opts, shellEnvLoaded, handles>>

\* The caller's input observable emits its next string: do({next}) writes
\* it to proc.stdin.  The stream that has ended has unsubscribed from it.
InputNext(s) ==
  /\ sub[s].phase = "live" /\ sub[s].input = "open"
  /\ Len(sub[s].stdin) < MaxInput
  /\ sub' = [sub EXCEPT ![s] = stdinCall(@, "write", Len(@.stdin) + 1)]
  /\ UNCHANGED <<loggedCalls, manager, ps, api, platform, opts, shellEnvLoaded, handles, out>>

\* The caller's input observable completes: do({complete}) ends proc.stdin;
\* ignoreElements() passes the completion to merge(), which goes on.
InputComplete(s) ==
  /\ sub[s].phase = "live" /\ sub[s].input = "open"
  /\ sub' = [sub EXCEPT ![s] = [stdinCall(@, "end", 0) EXCEPT !.input = "done"]]
  /\ UNCHANGED <<loggedCalls, manager, ps, api, platform, opts, shellEnvLoaded, handles, out>>

\* An 'exit' or a 'close' event with signal SIGUSR1, which the process
\* reports without ending.  The listeners are those of ProcExit and
\* ProcClose: exitEvents and closeEvents, each behind filter(isRealExit).
Usr1Event == [kind |-> "exit", exitCode |-> NoCode, signal |-> "SIGUSR1"]

ProcSignalled(s, name) ==
  /\ sub[s].os = "running"
  /\ name \notin sub[s].signalled
  /\ LET r == [sub[s] EXCEPT !.signalled = @ \cup {name}]
     IN  IF name = "exit"
           THEN /\ IF r.phase = "live" /\ isRealExit(Usr1Event)
                     THEN /\ sub' = [sub EXCEPT ![s] =
                               endSpawn(r, "complete", NoErr, TRUE)]
                          /\ out' = [out EXCEPT ![s] =
                               IF api = "observeProcess" /\ @.inner # "live"
                                 THEN topEnd(@, "complete", NoErr) ELSE @]
                     ELSE /\ sub' = [sub EXCEPT ![s] = r]
                          /\ UNCHANGED out
                /\ UNCHANGED loggedCalls
           ELSE /\ sub' = [sub EXCEPT ![s] = r]
                /\ out' = [out EXCEPT ![s] = onClose(@, Usr1Event, r.proc)]
                /\ loggedCalls' = logCall(loggedCalls, 0, "cmd")
  /\ UNCHANGED <<manager, ps, api, platform, opts, shellEnvLoaded, handles>>

\* 'data' event on the stdout or stderr of the process, while
\* getOutputStream listens.  A MaxBufferExceededError ends the
\* observeProcess() stream, which unsubscribes the spawn() stream; the
\* stream of getOutputStream() on its own ends alone.
StreamData(s, st, data) ==
  /\ out[s].inner = "live"
  /\ sub[s].os \in {"running", "exited", "closed"}
  /\ ~out[s].ended[st]
  /\ Len(out[s].recv["stdout"]) + Len(out[s].recv["stderr"]) < MaxChunks
  /\ LET o == onData(out[s], st, data)
     IN  /\ out' = [out EXCEPT ![s] = o]
         /\ sub' = IF o.result # "none" /\ sub[s].phase = "live"
                          /\ api = "observeProcess"
                     THEN [sub EXCEPT ![s] = endSpawn(@, "unsub", NoErr, FALSE)]
                     ELSE sub
  /\ UNCHANGED <<loggedCalls, manager, ps, api, platform, opts, shellEnvLoaded, handles>>

\* 'end' event on the stdout or stderr of the process.
StreamEnd(s, st) ==
  /\ api \in {"observeProcess", "getOutputStream"}
  /\ sub[s].os \in {"running", "exited", "closed"}
  /\ ~out[s].ended[st]
  /\ out' = [out EXCEPT ![s] = onEnd(@, st)]
  /\ UNCHANGED <<loggedCalls, manager, ps, api, platform, opts, shellEnvLoaded, handles, sub>>

\* 'close' event of the process: it has ended (or could not be spawned).
\* The event repeats the exit code and signal of the exit.  A listener may
\* see it before the 'end' of a stream whose data it has not consumed yet.
ProcClose(s) ==
  /\ sub[s].os \in {"exited", "errored"}
  /\ sub' = [sub EXCEPT ![s].os = "closed", ![s].exitEv = NoExit]
  /\ out' = [out EXCEPT ![s] = onClose(@, sub[s].exitEv, sub[s].proc)]
  /\ loggedCalls' = logCall(loggedCalls, 0, "cmd")
  /\ UNCHANGED <<manager, ps, api, platform, opts, shellEnvLoaded, handles>>

\* enforceTimeout: timeoutWith() unsubscribes the source and raises the
\* ProcessTimeoutError.  The timer is armed only when opts.timeout is
\* truthy; an error event forthcoming on the next tick precedes any timer.
Timeout(s) ==
  /\ opts.timeout # NoTimeout
  /\ sub[s].phase = "live"
  /\ sub[s].os # "spawnFailed"
  /\ sub' = [sub EXCEPT ![s] =
       endSpawn(@, "error", ProcessTimeoutError(opts.timeout, @.proc), FALSE)]
  /\ out' = [out EXCEPT ![s] =
       IF api = "observeProcess"
         THEN topEnd(@, "error", ProcessTimeoutError(opts.timeout, sub[s].proc))
         ELSE @]
  /\ UNCHANGED <<loggedCalls, manager, ps, api, platform, opts, shellEnvLoaded, handles>>

Unsubscribe_KeepWaiting(s) ==
  /\ IF api = "observeProcess"
       THEN sub[s].phase # "idle" /\ out[s].result = "none"
       ELSE sub[s].phase \in {"waitEnv", "live"}
  /\ sub' = [sub EXCEPT ![s] =
       IF @.phase = "waitEnv" THEN [@ EXCEPT !.spawnEnd = "unsub"]
       ELSE IF @.phase = "live" THEN endSpawn(@, "unsub", NoErr, FALSE)
       ELSE @]
  /\ out' = [out EXCEPT ![s] =
       IF api = "observeProcess" THEN topEnd(@, "unsub", NoErr) ELSE @]
  /\ UNCHANGED <<loggedCalls, manager, ps, api, platform, opts, shellEnvLoaded, handles>>

\* The subscriber unsubscribes from the stream it subscribed to.  Before
\* the shell environment was loaded there is no inner stream (and no
\* finally) yet; after the spawn() stream has ended there is none any more.
Unsubscribe(s) ==
  /\ IF api = "observeProcess"
       THEN sub[s].phase # "idle" /\ out[s].result = "none"
       ELSE sub[s].phase \in {"waitEnv", "live"}
  /\ sub' = [sub EXCEPT ![s] =
       IF @.phase = "waitEnv"
         THEN [@ EXCEPT !.phase = "ended", !.spawnEnd = "unsub"]
       ELSE IF @.phase = "live" THEN endSpawn(@, "unsub", NoErr, FALSE)
       ELSE @]
  /\ out' = [out EXCEPT ![s] =
       IF api = "observeProcess" THEN topEnd(@, "unsub", NoErr) ELSE @]
  /\ UNCHANGED <<loggedCalls, manager, ps, api, platform, opts, shellEnvLoaded, handles>>

UnsubscribeOutput_AndSpawn(s) ==
  /\ api = "getOutputStream"
  /\ out[s].inner = "live"
  /\ out' = [out EXCEPT ![s] = topEnd(@, "unsub", NoErr)]
  /\ sub' = [sub EXCEPT ![s] =
       IF @.phase = "live" THEN endSpawn(@, "unsub", NoErr, FALSE) ELSE @]
  /\ UNCHANGED <<loggedCalls, manager, ps, api, platform, opts, shellEnvLoaded, handles>>

\* The caller of getOutputStream(proc) unsubscribes from the stream it
\* returned: the finally() callback unsubscribes closeEvents, and the
\* listeners on stdout, stderr and 'close' are removed.
UnsubscribeOutput(s) ==
  /\ api = "getOutputStream"
  /\ out[s].inner = "live"
  /\ out' = [out EXCEPT ![s] = topEnd(@, "unsub", NoErr)]
  /\ UNCHANGED <<loggedCalls, manager, ps, api, platform, opts, shellEnvLoaded, handles, sub>>

\* 'error' event on stdin, stdout or stderr of a spawned process
\* (getStreamErrorEvents): every listener attached to the stream runs; an
\* 'error' event without a listener is thrown by Node.
StdioNames == {"stdin", "stdout", "stderr"}

onStreamError(r, name) ==
  [r EXCEPT !.streamErrors = @ + 1,
            !.streamLog = IF "streamErrorLog" \in r.listeners
                            THEN Append(@, name) ELSE @,
            !.unhandled = @ \/ ({"streamError", "streamErrorLog"}
                                    \cap r.listeners = {})]

StreamError(s, name) ==
  /\ sub[s].proc # 0
  /\ sub[s].streamErrors < MaxStreamErrors
  /\ sub' = [sub EXCEPT ![s] = onStreamError(@, name)]
  /\ UNCHANGED <<loggedCalls, manager, ps, api, platform, opts, shellEnvLoaded, handles, out>>

\* ------------------------------------------------------- process table
\* The snapshot psTree() returns: the processes this program spawned that
\* are still running, children of the host process.
RECURSIVE psTableFrom(_)
psTableFrom(s) ==
  IF s > Len(sub) THEN <<>>
  ELSE (IF sub[s].os = "running"
          THEN << [parentPid |-> HostPid, pid |-> sub[s].pid] >>
          ELSE <<>>) \o psTableFrom(s + 1)

psTable == psTableFrom(1)

\* pidToChildren.get(pid): the infos added under that parent pid, in order.
childrenOf(processes, pid) ==
  SelectSeq(processes, LAMBDA info : info.parentPid = pid)

walkDescendants_OneLevel(processes, descendants, i) ==
  IF descendants = <<>> THEN <<>>
  ELSE descendants \o childrenOf(processes, descendants[1].pid)

RECURSIVE walkDescendants(_, _, _)
walkDescendants(processes, descendants, i) ==
  IF i > Len(descendants) THEN descendants
  ELSE walkDescendants(processes,
         descendants \o childrenOf(processes, descendants[i].pid), i + 1)

getDescendantsOfProcess_DeepestFirst(processes, pid) ==
  LET roots == SelectSeq(processes, LAMBDA info : info.pid = pid)
      descendants == IF roots = <<>> THEN <<>> ELSE << roots[Len(roots)] >>
      walk == walkDescendants(processes, descendants, 1)
  IN  [i \in 1..Len(walk) |-> walk[Len(walk) + 1 - i]]

getDescendantsOfProcess(processes, pid) ==
  LET roots == SelectSeq(processes, LAMBDA info : info.pid = pid)
      descendants == IF roots = <<>> THEN <<>> ELSE << roots[Len(roots)] >>
  IN  walkDescendants(processes, descendants, 1)

Reverse_Not(q) == q

Reverse(q) == [i \in 1..Len(q) |-> q[Len(q) + 1 - i]]

\* killPid: process.kill(pid); ESRCH is swallowed, anything else is thrown.
killPidThrows_Any(result) == result # "ok"

killPidThrows(result) == result # "ok" /\ result # "ESRCH"

killLoop_First(order, result, i) ==
  IF i > Len(order) THEN <<>> ELSE << order[i].pid >>

\* killUnixProcessTree after the process-table query: the kills are issued
\* in reverse breadth-first order until one throws.  `result` is what
\* process.kill answers.  Returns the pids on which kill was called.
RECURSIVE killLoop(_, _, _)
killLoop(order, result, i) ==
  IF i > Len(order) THEN <<>>
  ELSE << order[i].pid >> \o
       (IF killPidThrows(result[order[i].pid]) THEN <<>>
        ELSE killLoop(order, result, i + 1))

PsDone(s) ==
  /\ sub[s].killJob = "ps"
  /\ \/ \* the process-table query failed: the promise rejects
        sub' = [sub EXCEPT ![s] =
                  killSettled([@ EXCEPT !.psRoot = "failed"], "rejected")]
     \/ LET processes == psTable \o ps.processes
            order == Reverse(getDescendantsOfProcess(processes, sub[s].pid))
            pids  == {order[i].pid : i \in 1..Len(order)}
        IN  \E result \in [pids -> {"ok", "ESRCH", "EPERM"}] :
              LET killed == killLoop(order, result, 1)
                  threw  == \E i \in 1..Len(killed) : killPidThrows(result[killed[i]])
                  n      == Cardinality({i \in 1..Len(killed) : killed[i] = sub[s].pid})
              IN  sub' = [sub EXCEPT ![s] = killSettled(
                    [@ EXCEPT !.signals = @ + n,
                              !.lastSignal = IF n > 0 THEN "SIGTERM" ELSE @,
                              !.psRoot = IF \E i \in 1..Len(psTable) :
                                              psTable[i].pid = sub[s].pid
                                           THEN "listed" ELSE "missing",
                              !.killed = killed,
                              !.answers = [i \in 1..Len(killed) |-> result[killed[i]]]],
                    IF threw THEN "rejected" ELSE "resolved")]
  /\ UNCHANGED <<loggedCalls, manager, ps, api, platform, opts, shellEnvLoaded, handles, out>>

\* getDescendantsOfProcess(pid) on the snapshot ps.processes.
GetDescendantsOfProcess(pid) ==
  /\ ps' = [ps EXCEPT !.pid = pid, !.phase = "done",
                      !.descendants = getDescendantsOfProcess(ps.processes, pid)]
  /\ UNCHANGED <<loggedCalls, manager, api, platform, opts, shellEnvLoaded, handles, sub, out>>

\* ------------------------------------------- SocketManager, its events
\* _sendMessage: the message goes out on the transport.
sendMessage(m, event, clientId) ==
  [m EXCEPT !.sent[clientId][event] = @ + 1]

\* _createConnection: a socket with its four listeners, closing over the
\* clientId of the message; Map.set replaces whatever the id mapped to.
createConnection(m, clientId) ==
  [m EXCEPT !.sockets = Append(@, [clientId |-> clientId, state |-> "open",
                                   listeners |-> TRUE, written |-> 0,
                                   ended |-> FALSE, remoteEnded |-> FALSE,
                                   data |-> 0, pendingError |-> FALSE,
                                   replaced |-> m.socketByClientId[clientId]]),
            !.socketByClientId[clientId] = Len(m.sockets) + 1]

\* socket.destroy(error): the socket is destroyed once; a given error is
\* emitted as its 'error' event before the 'close' event.
destroy(socket, withError) ==
  IF socket.state = "open"
    THEN [socket EXCEPT !.state = "destroyed", !.pendingError = withError]
    ELSE socket

\* _forwardData: socket.write(message.arg), or a log entry.
forwardData(m, clientId) ==
  LET k == m.socketByClientId[clientId]
  IN  IF k # NoSocket THEN [m EXCEPT !.sockets[k].written = @ + 1] ELSE m

\* _destroySocket: socket.destroy(error), or a log entry.
destroySocket(m, clientId) ==
  LET k == m.socketByClientId[clientId]
  IN  IF k # NoSocket THEN [m EXCEPT !.sockets[k] = destroy(@, TRUE)] ELSE m

\* _endSocket: socket.end(), or a log entry.
endSocket(m, clientId) ==
  LET k == m.socketByClientId[clientId]
  IN  IF k # NoSocket THEN [m EXCEPT !.sockets[k].ended = TRUE] ELSE m

\* _ensureSocketClosed: socket.destroy() when the socket is still there.
ensureSocketClosed(m, clientId) ==
  LET k == m.socketByClientId[clientId]
  IN  IF k # NoSocket THEN [m EXCEPT !.sockets[k] = destroy(@, FALSE)] ELSE m

handleMessage_AlwaysConnect(m, message) ==
  IF message.event = "connection" \/ m.socketByClientId[message.clientId] = NoSocket
    THEN createConnection(m, message.clientId)
  ELSE IF message.event = "data" THEN forwardData(m, message.clientId)
  ELSE IF message.event = "error" THEN destroySocket(m, message.clientId)
  ELSE IF message.event = "close" THEN ensureSocketClosed(m, message.clientId)
  ELSE IF message.event = "end" THEN endSocket(m, message.clientId)
  ELSE m

\* _handleMessage.
handleMessage(m, message) ==
  IF message.event = "connection" THEN createConnection(m, message.clientId)
  ELSE IF message.event = "data" THEN forwardData(m, message.clientId)
  ELSE IF message.event = "error" THEN destroySocket(m, message.clientId)
  ELSE IF message.event = "close" THEN ensureSocketClosed(m, message.clientId)
  ELSE IF message.event = "end" THEN endSocket(m, message.clientId)
  ELSE m

MessageEvents == {"connection", "data", "error", "close", "end"}

\* _deleteSocket(id): invariant(socket) throws when the map has no entry
\* for id; otherwise the listeners of the entry are removed and the entry
\* is deleted.
deleteSocket(m, id) ==
  LET k == m.socketByClientId[id]
  IN  IF k = NoSocket THEN [m EXCEPT !.thrown = TRUE]
      ELSE [m EXCEPT !.sockets[k].listeners = FALSE,
                     !.socketByClientId[id] = NoSocket]

InitSockets ==
  /\ api = "SocketManager"
  /\ platform = "linux"
  /\ opts = DefaultOptions
  /\ shellEnvLoaded = FALSE
  /\ handles = 0
  /\ ps = NoPs
  /\ sub = [s \in {1} |-> InitSub]
  /\ out = [s \in {1} |-> InitOut]
  /\ loggedCalls = <<>>
  /\ manager = NewManager

\* receive(message).
Receive(message) ==
  /\ manager.received < MaxMessages
  /\ manager' = [handleMessage(manager, message) EXCEPT
                   !.received = @ + 1,
                   !.last = [event |-> message.event, clientId |-> message.clientId,
                             socket |-> manager.socketByClientId[message.clientId]]]
  /\ UNCHANGED <<loggedCalls, ps, api, platform, opts, shellEnvLoaded, handles, sub, out>>

\* 'error' event of socket k: a failure of the connection, or the error
\* destroy(error) was given.  The listener sends the error and destroys the
\* socket; an 'error' event without a listener is thrown.
SocketError(k) ==
  /\ \/ manager.sockets[k].state = "open"
     \/ manager.sockets[k].state = "destroyed" /\ manager.sockets[k].pendingError
  /\ LET socket == manager.sockets[k]
         m == [manager EXCEPT !.sockets[k] =
                 [destroy(socket, FALSE) EXCEPT !.pendingError = FALSE]]
     IN  manager' = IF socket.listeners
                      THEN sendMessage(m, "error", socket.clientId)
                      ELSE [m EXCEPT !.thrown = TRUE]
  /\ UNCHANGED <<loggedCalls, ps, api, platform, opts, shellEnvLoaded, handles, sub, out>>

\* 'data' event of socket k.
SocketData(k) ==
  /\ manager.sockets[k].state = "open"
  /\ ~manager.sockets[k].remoteEnded
  /\ manager.sockets[k].data < MaxData
  /\ LET socket == manager.sockets[k]
         m == [manager EXCEPT !.sockets[k].data = @ + 1]
     IN  manager' = IF socket.listeners
                      THEN sendMessage(m, "data", socket.clientId) ELSE m
  /\ UNCHANGED <<loggedCalls, ps, api, platform, opts, shellEnvLoaded, handles, sub, out>>

\* 'end' event of socket k: the other side has ended.
SocketEnd(k) ==
  /\ manager.sockets[k].state = "open"
  /\ ~manager.sockets[k].remoteEnded
  /\ LET socket == manager.sockets[k]
         m == [manager EXCEPT !.sockets[k].remoteEnded = TRUE]
     IN  manager' = IF socket.listeners
                      THEN sendMessage(m, "end", socket.clientId) ELSE m
  /\ UNCHANGED <<loggedCalls, ps, api, platform, opts, shellEnvLoaded, handles, sub, out>>

\* 'close' event of socket k, emitted once, after the 'error' event if one
\* is due: the listener sends 'close' and calls _deleteSocket(clientId).
SocketClose(k) ==
  /\ manager.sockets[k].state \in {"open", "destroyed"}
  /\ ~manager.sockets[k].pendingError
  /\ LET socket == manager.sockets[k]
         m == [manager EXCEPT !.sockets[k].state = "closed"]
     IN  manager' = IF socket.listeners
                      THEN deleteSocket(sendMessage(m, "close", socket.clientId),
                                        socket.clientId)
                      ELSE m
  /\ UNCHANGED <<loggedCalls, ps, api, platform, opts, shellEnvLoaded, handles, sub, out>>

NextSockets ==
  \/ \E message \in [event : MessageEvents, clientId : ClientIds] :
       Receive(message)
  \/ \E k \in 1..Len(manager.sockets) :
       \/ SocketError(k)
       \/ SocketData(k)
       \/ SocketEnd(k)
       \/ SocketClose(k)

SpecSockets == InitSockets /\ [][NextSockets]_vars

\* ----------------------------------------------- the history of logCall
\* The process completions of a long session, logged one after the other.
InitLog ==
  /\ api = "logCall"
  /\ platform = "linux"
  /\ opts = DefaultOptions
  /\ shellEnvLoaded = FALSE
  /\ handles = 0
  /\ ps = NoPs
  /\ sub = [s \in {1} |-> InitSub]
  /\ out = [s \in {1} |-> InitOut]
  /\ loggedCalls = <<>>
  /\ manager = NewManager

\* The 'close' listener of a process that has ended calls logCall.
LogCall(duration, command) ==
  /\ now(loggedCalls) <= MaxLoggedRuns
  /\ loggedCalls' = logCall(loggedCalls, duration, command)
  /\ UNCHANGED <<manager, ps, api, platform, opts, shellEnvLoaded, handles, sub, out>>

NextLog == \E command \in {"cmd"} : LogCall(0, command)

SpecLog == InitLog /\ [][NextLog]_vars

\* ------------------------------ getDescendantsOfProcess, step by step
\* A snapshot as a process-listing command prints it: no pid twice, any
\* parent pid in any row (pid 0 is listed as its own parent on some
\* platforms, and a reused pid can make a process its own ancestor).
Snapshots(pids, n) ==
  {<<>>} \cup UNION { { q \in [1..k -> [parentPid : pids, pid : pids]] :
                          \A i, j \in 1..k : q[i].pid = q[j].pid => i = j }
                      : k \in 1..n }

\* Climbing from pid `from` through at most k rows arrives at pid `target`.
RECURSIVE climbsTo(_, _, _, _)
climbsTo(processes, from, target, k) ==
  IF from = target THEN TRUE
  ELSE IF from \notin listedPids(processes) \/ k = 0 THEN FALSE
  ELSE climbsTo(processes, parentPidOf(processes, from), target, k - 1)

\* The process pid is listed and is its own ancestor.
ownAncestor(processes, pid) ==
  /\ pid \in listedPids(processes)
  /\ climbsTo(processes, parentPidOf(processes, pid), pid, Len(processes))

InitWalk ==
  /\ api = "getDescendantsOfProcess"
  /\ platform = "linux"
  /\ opts = DefaultOptions
  /\ shellEnvLoaded = FALSE
  /\ handles = 0
  /\ ps \in { [NoPs EXCEPT !.processes = q] :
               q \in Snapshots(0..(MaxProcs - 1), MaxProcs) }
  /\ sub = [s \in {1} |-> InitSub]
  /\ out = [s \in {1} |-> InitOut]
  /\ loggedCalls = <<>>
  /\ manager = NewManager

\* getDescendantsOfProcess(pid) up to its loop: psTree() has answered, the
\* multimap is built, and descendants holds the root when it is listed.
WalkStart(pid) ==
  /\ ps.phase = "idle"
  /\ LET roots == SelectSeq(ps.processes, LAMBDA info : info.pid = pid)
     IN  ps' = [ps EXCEPT !.pid = pid, !.phase = "walking", !.index = 0,
                          !.descendants = IF roots = <<>> THEN <<>>
                                          ELSE << roots[Len(roots)] >>]
  /\ UNCHANGED <<loggedCalls, manager, api, platform, opts, shellEnvLoaded, handles, sub, out>>

walkStep_SkipListed(processes, descendants, i) ==
  descendants \o SelectSeq(childrenOf(processes, descendants[i + 1].pid),
                    LAMBDA info : \A k \in 1..Len(descendants) :
                                    descendants[k].pid # info.pid)

\* One iteration of the loop: the children of descendants[i] are pushed.
walkStep(processes, descendants, i) ==
  descendants \o childrenOf(processes, descendants[i + 1].pid)

\* for (let i = 0; i < descendants.length; i++).  With no pid listed twice,
\* a walk that has listed more entries than the snapshot has rows has listed
\* a process twice; from then on (phase "repeating") the model keeps only
\* the entries the loop has not read yet, which are all it will ever read,
\* and of i only whether it is even or odd.
WalkStep ==
  /\ \/ ps.phase = "walking" /\ ps.index < Len(ps.descendants)
     \/ ps.phase = "repeating" /\ ps.descendants # <<>>
  /\ LET i == IF ps.phase = "repeating" THEN 0 ELSE ps.index
         pushed == walkStep(ps.processes, ps.descendants, i)
     IN  IF ps.phase = "repeating" \/ Len(pushed) > Len(ps.processes)
           THEN ps' = [ps EXCEPT !.phase = "repeating",
                                 !.index = (@ + 1) % 2,
                                 !.descendants = SubSeq(pushed, i + 2, Len(pushed))]
           ELSE ps' = [ps EXCEPT !.descendants = pushed, !.index = @ + 1]
  /\ UNCHANGED <<loggedCalls, manager, api, platform, opts, shellEnvLoaded, handles, sub, out>>

\* The loop condition fails: descendants is returned.
WalkReturn ==
  /\ \/ ps.phase = "walking" /\ ps.index >= Len(ps.descendants)
     \/ ps.phase = "repeating" /\ ps.descendants = <<>>
  /\ ps' = [ps EXCEPT !.phase = "done"]
  /\ UNCHANGED <<loggedCalls, manager, api, platform, opts, shellEnvLoaded, handles, sub, out>>

NextWalk ==
  \/ \E pid \in 1..(MaxProcs - 1) : WalkStart(pid)
  \/ WalkStep
  \/ WalkReturn

\* The loop is synchronous code: once started it keeps running.
SpecWalk == InitWalk /\ [][NextWalk]_vars /\ WF_vars(NextWalk)

killWindowsProcessTree_Straight(error) ==
  IF error = Null THEN "resolved" ELSE "rejected"

\* killWindowsProcessTree: the callback of exec('taskkill /pid .. /T /F').
killWindowsProcessTree(error) ==
  IF error = Null THEN "rejected" ELSE "resolved"

TaskkillDone(s) ==
  /\ sub[s].killJob = "taskkill"
  /\ \E error \in {Null, "exit code 128"} :
       sub' = [sub EXCEPT ![s] =
                 killSettled([@ EXCEPT !.taskkillError = error],
                             killWindowsProcessTree(error))]
  /\ UNCHANGED <<loggedCalls, manager, ps, api, platform, opts, shellEnvLoaded, handles, out>>

\* ----------------------------------------------------- limitBufferSize
\* The maxBuffer that reaches getOutputStream: observeProcess() passes the
\* caller's options on, runCommand() and runCommandDetailed() put theirs in.
passedMaxBuffer ==
  IF api = "observeProcess" THEN opts.maxBuffer ELSE runMaxBuffer(opts.maxBuffer)

\* The sizes of the 'data' events of a process that writes a lot.
DataSizes ==
  {1, DEFAULT_MAX_BUFFER - 1, DEFAULT_MAX_BUFFER, DEFAULT_MAX_BUFFER + 1}

\* One call made with the options of a caller who gives no maxBuffer.
InitLimit ==
  /\ api \in {"observeProcess", "runCommand", "runCommandDetailed"}
  /\ platform = "linux"
  /\ opts = DefaultOptions
  /\ shellEnvLoaded = TRUE
  /\ handles = 0
  /\ ps = NoPs
  /\ sub = [s \in {1} |-> InitSub]
  /\ out = [s \in {1} |-> [InitOut EXCEPT !.inner = "live"]]
  /\ loggedCalls = <<>>
  /\ manager = NewManager

\* limitBufferSize on a 'data' event of `size` characters of stream st: only
\* the size of the data counts; recv keeps the sizes received.
LimitData(s, st, size) ==
  /\ out[s].inner = "live" /\ out[s].result = "none"
  /\ Len(out[s].recv["stdout"]) + Len(out[s].recv["stderr"]) < MaxChunks
  /\ LET total == out[s].totalSize[st] + size
         o1 == [out[s] EXCEPT !.totalSize[st] = total, !.recv[st] = Append(@, size)]
     IN  out' = [out EXCEPT ![s] =
           IF limitExceeded(total, passedMaxBuffer)
             THEN topEnd(o1, "error", MaxBufferExceededError(st)) ELSE o1]
  /\ UNCHANGED <<loggedCalls, manager, ps, api, platform, opts, shellEnvLoaded, handles, sub>>

NextLimit == \E s \in Subs, st \in Streams, size \in DataSizes : LimitData(s, st, size)

SpecLimit == InitLimit /\ [][NextLimit]_vars

\* ------------------------------------------------------- parsePsOutput
\* Text is a sequence of one-character strings.
NaN == -1

Digits == <<"0", "1", "2", "3", "4", "5", "6", "7", "8", "9">>

isSpace(c) == c \in {" ", "\t", "\n", "\r"}

RECURSIVE trimStart(_)
trimStart(t) ==
  IF t = <<>> \/ ~isSpace(Head(t)) THEN t ELSE trimStart(Tail(t))

RECURSIVE trimEnd(_)
trimEnd(t) ==
  IF t = <<>> \/ ~isSpace(t[Len(t)]) THEN t
  ELSE trimEnd(SubSeq(t, 1, Len(t) - 1))

\* String.prototype.trim
trim(t) == trimEnd(trimStart(t))

\* split(/\n|\r\n/), from position i with the piece `cur` under way.
RECURSIVE splitNewlines(_, _, _)
splitNewlines(t, cur, i) ==
  IF i > Len(t) THEN << cur >>
  ELSE IF t[i] = "\n" THEN << cur >> \o splitNewlines(t, <<>>, i + 1)
  ELSE IF t[i] = "\r" /\ i < Len(t) /\ t[i + 1] = "\n"
    THEN << cur >> \o splitNewlines(t, <<>>, i + 2)
  ELSE splitNewlines(t, Append(cur, t[i]), i + 1)

\* The first position from i on that holds no white space.
RECURSIVE skipSpaces(_, _)
skipSpaces(t, i) ==
  IF i > Len(t) \/ ~isSpace(t[i]) THEN i ELSE skipSpaces(t, i + 1)

\* split(/\s+/), from position i with the piece `cur` under way.
RECURSIVE splitSpaces(_, _, _)
splitSpaces(t, cur, i) ==
  IF i > Len(t) THEN << cur >>
  ELSE IF isSpace(t[i])
    THEN << cur >> \o splitSpaces(t, <<>>, skipSpaces(t, i))
  ELSE splitSpaces(t, Append(cur, t[i]), i + 1)

\* Array.prototype.slice(n)
sliceFrom(q, n) == SubSeq(q, n + 1, Len(q))

\* Array.prototype.join(' ')
RECURSIVE joinSpace(_)
joinSpace(columns) ==
  IF columns = <<>> THEN <<>>
  ELSE IF Len(columns) = 1 THEN columns[1]
  ELSE columns[1] \o << " " >> \o joinSpace(Tail(columns))

digitOf(c) == (CHOOSE d \in 1..10 : Digits[d] = c) - 1

isDigit(c) == \E d \in 1..10 : Digits[d] = c

\* parseInt(t, 10) of a column (no white space, no sign): the number its
\* leading digits spell, NaN when there is none (or no column).
RECURSIVE parseDigits(_, _, _)
parseDigits(t, i, n) ==
  IF i > Len(t) \/ ~isDigit(t[i]) THEN n
  ELSE parseDigits(t, i + 1, 10 * n + digitOf(t[i]))

parseInt(t) ==
  IF t = <<>> \/ ~isDigit(t[1]) THEN NaN ELSE parseDigits(t, 1, 0)

\* columns[n] of a JavaScript array (from 0): undefined reads as no text.
column(columns, n) == IF n < Len(columns) THEN columns[n + 1] ELSE <<>>

\* new Map(pairs).get(pid): the last pair with that key.
withArgsGet(pairs, pid) ==
  LET hits == {i \in 1..Len(pairs) : pairs[i].pid = pid}
  IN  IF hits = {} THEN [found |-> FALSE, command |-> <<>>]
      ELSE [found |-> TRUE,
            command |-> pairs[CHOOSE i \in hits : \A j \in hits : j <= i].command]

argsPairs(argsOutput) ==
  LET lines == sliceFrom(splitNewlines(trim(argsOutput), <<>>, 1), 1)
  IN  [i \in 1..Len(lines) |->
         LET columns == splitSpaces(trim(lines[i]), <<>>, 1)
         IN  [pid |-> parseInt(column(columns, 0)),
              command |-> joinSpace(sliceFrom(columns, 1))]]

parseLines(lines, withArgs) ==
  [i \in 1..Len(lines) |->
     LET columns == splitSpaces(trim(lines[i]), <<>>, 1)
         pid == parseInt(column(columns, 1))
         command == joinSpace(sliceFrom(columns, 2))
         commandWithArgs == withArgsGet(withArgs, pid)
     IN  [command |-> command,
          parentPid |-> parseInt(column(columns, 0)),
          pid |-> pid,
          commandWithArgs |-> IF commandWithArgs.found
                                THEN commandWithArgs.command ELSE command]]

parsePsOutput_KeepHeader(psOutput, argsGiven, argsOutput) ==
  parseLines(splitNewlines(trim(psOutput), <<>>, 1),
             IF argsGiven THEN argsPairs(argsOutput) ELSE <<>>)

parsePsOutput(psOutput, argsGiven, argsOutput) ==
  parseLines(sliceFrom(splitNewlines(trim(psOutput), <<>>, 1), 1),
             IF argsGiven THEN argsPairs(argsOutput) ELSE <<>>)

\* What ps prints.  The digits of a number:
RECURSIVE toDigits(_)
toDigits(n) ==
  IF n < 10 THEN << Digits[n + 1] >>
  ELSE toDigits(n \div 10) \o << Digits[(n % 10) + 1] >>

\* The words of the commands the listed processes run.
PsCommands == { << <<"s", "h">> >>, << <<"l", "s">>, <<"-", "l">> >> }

ArgsCommands == { << <<"l", "s">>, <<"-", "l">>, <<"s", "h">> >> }

PsRows == [parentPid : {0, 1}, pid : {1, 23}, command : PsCommands]

ArgsRows == [pid : {1, 23}, command : ArgsCommands]

\* How a table is laid out: what separates two columns, what starts a
\* line, what ends it.
Layouts ==
  { [sep |-> <<" ">>, lead |-> <<>>, nl |-> <<"\n">>],
    [sep |-> <<" ", " ">>, lead |-> <<" ">>, nl |-> <<"\n">>],
    [sep |-> <<" ">>, lead |-> <<" ", " ">>, nl |-> <<"\r", "\n">>],
    [sep |-> <<"\t">>, lead |-> <<>>, nl |-> <<"\r", "\n">>] }

RECURSIVE printColumns(_, _)
printColumns(columns, layout) ==
  IF columns = <<>> THEN <<>>
  ELSE IF Len(columns) = 1 THEN columns[1]
  ELSE columns[1] \o layout.sep \o printColumns(Tail(columns), layout)

RECURSIVE printLines(_, _)
printLines(lines, layout) ==
  IF lines = <<>> THEN <<>>
  ELSE layout.lead \o printColumns(lines[1], layout) \o layout.nl
         \o printLines(Tail(lines), layout)

printPs(table, layout) ==
  printLines(<< << <<"P", "P", "I", "D">>, <<"P", "I", "D">>, <<"C", "O", "M", "M">> >> >>
               \o [i \in 1..Len(table) |->
                     << toDigits(table[i].parentPid), toDigits(table[i].pid) >>
                       \o table[i].command],
             layout)

printArgs(table, layout) ==
  printLines(<< << <<"P", "I", "D">>, <<"A", "R", "G", "S">> >> >>
               \o [i \in 1..Len(table) |->
                     << toDigits(table[i].pid) >> \o table[i].command],
             layout)

Tables(rows) == UNION { [1..k -> rows] : k \in 0..MaxRows }

\* The outputs of the two ps commands of psTreeUnix, or of the one of
\* psTreeWindows (no args table), before parsePsOutput is applied.
InitParse ==
  /\ api = "parsePsOutput"
  /\ platform = "linux"
  /\ opts = DefaultOptions
  /\ shellEnvLoaded = FALSE
  /\ handles = 0
  /\ \E table \in Tables(PsRows), layout \in Layouts, argsGiven \in BOOLEAN :
       \E argsTable \in IF argsGiven THEN Tables(ArgsRows) ELSE {<<>>} :
         ps = [NoPs EXCEPT !.table = table, !.argsTable = argsTable,
                           !.psOutput = printPs(table, layout),
                           !.argsOutput = IF argsGiven
                                            THEN printArgs(argsTable, layout)
                                            ELSE <<>>,
                           !.argsGiven = argsGiven]
  /\ sub = [s \in {1} |-> InitSub]
  /\ out = [s \in {1} |-> InitOut]
  /\ loggedCalls = <<>>
  /\ manager = NewManager

ParsePsOutput ==
  /\ ps.phase = "idle"
  /\ ps' = [ps EXCEPT !.phase = "parsed",
                      !.parsed = parsePsOutput(ps.psOutput, ps.argsGiven,
                                               ps.argsOutput)]
  /\ UNCHANGED <<loggedCalls, manager, api, platform, opts, shellEnvLoaded, handles, sub, out>>

NextParse == ParsePsOutput

SpecParse == InitParse /\ [][NextParse]_vars

Chunks == { <<"a">>, <<"\n", "b">> }

Next ==
  \/ ShellEnvironmentLoaded
  \/ \E s \in Subs :
       \/ Subscribe(s)
       \/ \E e \in ErrorObjects : ProcError(s, e)
       \/ \E ev \in ExitEvents : ProcExit(s, ev)
       \/ ProcClose(s)
       \/ Timeout(s)
       \/ Unsubscribe(s)

Spec == Init /\ [][Next]_vars

NextKill ==
  \/ ShellEnvironmentLoaded
  \/ \E s \in Subs :
       \/ Subscribe(s)
       \/ \E e \in ErrorObjects : ProcError(s, e)
       \/ \E ev \in ExitEvents : ProcExit(s, ev)
       \/ ProcClose(s)
       \/ Timeout(s)
       \/ Unsubscribe(s)
       \/ PsDone(s)
       \/ TaskkillDone(s)

SpecKill == InitKill /\ [][NextKill]_vars

NextObserve ==
  \/ ShellEnvironmentLoaded
  \/ \E s \in Subs :
       \/ Subscribe(s)
       \/ \E e \in ErrorObjects : ProcError(s, e)
       \/ \E ev \in ObservedExitEvents : ProcExit(s, ev)
       \/ \E st \in Streams, data \in Chunks : StreamData(s, st, data)
       \/ \E st \in Streams : StreamEnd(s, st)
       \/ ProcClose(s)
       \/ Timeout(s)
       \/ Unsubscribe(s)
       \/ PsDone(s)

SpecObserve == InitObserve /\ [][NextObserve]_vars

NextExit ==
  \/ ShellEnvironmentLoaded
  \/ \E s \in Subs :
       \/ Subscribe(s)
       \/ \E e \in ErrorObjects : ProcError(s, e)
       \/ \E ev \in ObservedExitEvents : ProcExit(s, ev)
       \/ \E st \in Streams, data \in Chunks : StreamData(s, st, data)
       \/ \E st \in Streams : StreamEnd(s, st)
       \/ ProcClose(s)
       \/ Unsubscribe(s)

SpecExit == InitExit /\ [][NextExit]_vars

SpecRun == InitRun /\ [][NextExit]_vars

NextUnsub ==
  \/ ShellEnvironmentLoaded
  \/ \E s \in Subs :
       \/ Subscribe(s)
       \/ \E e \in ErrorObjects : ProcError(s, e)
       \/ \E ev \in ExitEvents : ProcExit(s, ev)
       \/ ProcClose(s)
       \/ Unsubscribe(s)
       \/ PsDone(s)
       \/ TaskkillDone(s)

SpecUnsub == InitUnsub /\ [][NextUnsub]_vars

\* spawn() subscribed by a caller that passes the emitted handle to
\* getOutputStream() and holds the two subscriptions apart.
OutputOptionSets ==
  [ timeout : {NoTimeout},
    killTreeWhenDone : {FALSE, TRUE},
    killTreeSignal : {Null},
    maxBuffer : {NoLimit, MaxBufferOpt},
    splitByLines : {TRUE},
    exitErrorBufferSize : {NoSize},
    isExitError : {Null},
    input : {Null} ]

InitOutput ==
  /\ api = "getOutputStream"
  /\ platform \in {"linux", "win32"}
  /\ opts \in OutputOptionSets
  /\ shellEnvLoaded = FALSE
  /\ handles = 0
  /\ ps = NoPs
  /\ sub = [s \in {1} |-> InitSub]
  /\ out = [s \in {1} |-> InitOut]
  /\ loggedCalls = <<>>
  /\ manager = NewManager

NextOutput ==
  \/ ShellEnvironmentLoaded
  \/ \E s \in Subs :
       \/ Subscribe(s)
       \/ \E e \in ErrorObjects : ProcError(s, e)
       \/ \E ev \in ExitEvents : ProcExit(s, ev)
       \/ \E st \in Streams, data \in Chunks : StreamData(s, st, data)
       \/ \E st \in Streams : StreamEnd(s, st)
       \/ ProcClose(s)
       \/ Unsubscribe(s)
       \/ UnsubscribeOutput(s)
       \/ PsDone(s)
       \/ TaskkillDone(s)

SpecOutput == InitOutput /\ [][NextOutput]_vars

\* One subscription of spawn(), whose process has stdio streams.
InitStreams ==
  /\ api = "spawn"
  /\ platform \in {"linux", "win32"}
  /\ opts \in SpawnOptionSets
  /\ shellEnvLoaded = FALSE
  /\ handles = 0
  /\ ps = NoPs
  /\ sub = [s \in {1} |-> InitSub]
  /\ out = [s \in {1} |-> InitOut]
  /\ loggedCalls = <<>>
  /\ manager = NewManager

\* spawn() with the 'error' events of the stdio streams of the process.
NextStreams ==
  \/ ShellEnvironmentLoaded
  \/ \E s \in Subs :
       \/ Subscribe(s)
       \/ \E e \in ErrorObjects : ProcError(s, e)
       \/ \E ev \in ExitEvents : ProcExit(s, ev)
       \/ ProcClose(s)
       \/ Timeout(s)
       \/ Unsubscribe(s)
       \/ \E name \in StdioNames : StreamError(s, name)

SpecStreams == InitStreams /\ [][NextStreams]_vars

NextInput ==
  \/ ShellEnvironmentLoaded
  \/ \E s \in Subs :
       \/ Subscribe(s)
       \/ InputNext(s)
       \/ InputComplete(s)
       \/ \E e \in ErrorObjects : ProcError(s, e)
       \/ \E ev \in ExitEvents : ProcExit(s, ev)
       \/ ProcClose(s)
       \/ Timeout(s)
       \/ Unsubscribe(s)

SpecInput == InitInput /\ [][NextInput]_vars

NextSignal ==
  \/ ShellEnvironmentLoaded
  \/ \E s \in Subs :
       \/ Subscribe(s)
       \/ \E e \in ErrorObjects : ProcError(s, e)
       \/ \E ev \in ObservedExitEvents : ProcExit(s, ev)
       \/ \E name \in {"exit", "close"} : ProcSignalled(s, name)
       \/ \E st \in Streams, data \in Chunks : StreamData(s, st, data)
       \/ \E st \in Streams : StreamEnd(s, st)
       \/ ProcClose(s)
       \/ Unsubscribe(s)

SpecSignal == InitSignal /\ [][NextSignal]_vars

NextPs == \E pid \in 1..MaxProcs : GetDescendantsOfProcess(pid)

SpecPs == InitPs /\ [][NextPs]_vars

\* ==================================================================
\* Properties of the spawn() stream (specification Spec)
\* ==================================================================
killTree == opts.killTreeWhenDone = TRUE

\* Subscription s was unsubscribed, with no timeout set, after its process
\* was spawned and before that process exited or emitted an error.
UnsubscribedRunning(s) ==
  /\ opts.timeout = NoTimeout
  /\ sub[s].spawnEnd = "unsub"
  /\ sub[s].pid # NoPid

C2_NoSpawnBeforeSubscribe ==
  /\ \A s \in Subs :
       sub[s].phase = "idle" =>
         (sub[s].proc = 0 /\ sub[s].pid = NoPid /\ sub[s].os = "none")
  /\ handles <= Cardinality({s \in Subs : sub[s].phase # "idle"})

C2_Witness ==
  \E s, t \in Subs :
    /\ sub[s].phase = "idle" /\ sub[s].proc = 0
    /\ sub[t].proc # 0 /\ sub[t].os = "running"

DistinctHandles ==
  \A s, t \in Subs :
    (s # t /\ sub[s].proc # 0 /\ sub[t].proc # 0) =>
      (sub[s].proc # sub[t].proc /\
       (sub[s].pid # NoPid => sub[s].pid # sub[t].pid))

\* C3 as stated: after k subscriptions exactly k processes have been
\* spawned, one per subscription, no two sharing a handle.
C3_OnePerSubscription ==
  /\ handles = Cardinality({s \in Subs : sub[s].phase # "idle"})
  /\ \A s \in Subs : sub[s].phase # "idle" => sub[s].proc # 0
  /\ DistinctHandles

\* C3 as amended: every subscription spawns at most one process, and
\* exactly one as soon as the shell environment is loaded while it is
\* subscribed; a subscription that is still waiting for the environment,
\* or was unsubscribed while waiting, has spawned none.  The processes
\* spawned are as many as the subscriptions that got a handle, and no two
\* subscriptions share a handle.
C3_OnePerSpawnedSubscription ==
  /\ handles = Cardinality({s \in Subs : sub[s].proc # 0})
  /\ DistinctHandles
  /\ \A s \in Subs :
       /\ sub[s].proc # 0 => sub[s].proc \in 1..handles
       /\ sub[s].phase = "live" => sub[s].proc # 0
       /\ sub[s].phase \in {"idle", "waitEnv"} => sub[s].proc = 0
       /\ (sub[s].phase = "ended" /\ sub[s].proc = 0) => sub[s].spawnEnd = "unsub"
       /\ shellEnvLoaded => sub[s].phase # "waitEnv"
  /\ ~shellEnvLoaded => handles = 0

C3_Witness ==
  \E s, t \in Subs :
    /\ s # t /\ handles = 2
    /\ sub[s].os = "running" /\ sub[t].os = "running"
    /\ sub[s].pid # sub[t].pid

\* C4: a real exit of the process completes a live spawn() stream without
\* error, whatever the exit code or signal, and requests no kill, neither
\* then nor later.
C4_ExitCompletesWithoutKill ==
  [][\A s \in Subs :
       /\ (sub[s].phase = "live" /\ sub[s].os = "running" /\ sub'[s].os = "exited")
            => /\ sub'[s].spawnEnd = "complete" /\ sub'[s].spawnErr = NoErr
               /\ sub'[s].phase = "ended" /\ sub'[s].finished
       /\ (sub'[s].spawnEnd = "complete")
            => /\ sub'[s].killCalls = 0 /\ sub'[s].signals = 0
               /\ sub'[s].taskkills = 0 /\ sub'[s].killJob = "none"
               /\ ~sub'[s].wasKilled /\ sub'[s].spawnErr = NoErr]_vars

C4_Witness ==
  \E s \in Subs :
    /\ sub[s].spawnEnd = "complete" /\ sub[s].os = "exited"
    /\ sub[s].exitEv.exitCode = 1 /\ sub[s].killCalls = 0

C6_TimeoutKillsOnce ==
  [][\A s \in Subs :
       /\ (sub[s].phase = "live" /\ sub'[s].spawnErr.name = "ProcessTimeoutError")
            => /\ opts.timeout # NoTimeout
               /\ sub'[s].spawnEnd = "error" /\ sub'[s].phase = "ended"
               /\ sub'[s].spawnErr.timeout = opts.timeout
               /\ sub'[s].killCalls = 1 /\ sub'[s].wasKilled
               /\ ~killTree => (sub'[s].signals = 1 /\ sub'[s].taskkills = 0)
               /\ killTree => /\ sub'[s].signals = 0
                              /\ sub'[s].killJob =
                                   (IF platform = "win32" THEN "taskkill" ELSE "ps")
               /\ LET u == endSpawn(sub[s], "unsub", NoErr, FALSE)
                  IN  /\ sub'[s].killCalls = u.killCalls
                      /\ sub'[s].signals = u.signals
                      /\ sub'[s].lastSignal = u.lastSignal
                      /\ sub'[s].killJob = u.killJob
                      /\ sub'[s].taskkills = u.taskkills
                      /\ sub'[s].os = u.os
       /\ sub[s].spawnErr.name = "ProcessTimeoutError"
            => sub'[s].killCalls = 1]_vars

C6_Witness ==
  \E s \in Subs :
    /\ sub[s].spawnErr.name = "ProcessTimeoutError"
    /\ sub[s].killCalls = 1 /\ sub[s].signals = 1 /\ sub[s].os = "running"

\* ------------------------------------------- claims on observeProcess()
\* The 'exit' messages among the messages a subscriber received.
exitMessages(o) ==
  Cardinality({i \in 1..Len(o.delivered) : o.delivered[i].kind = "exit"})

\* The data of the messages of stream st, in the order of delivery.
RECURSIVE deliveredData(_, _, _)
deliveredData(msgs, st, i) ==
  IF i > Len(msgs) THEN <<>>
  ELSE (IF msgs[i].kind = st THEN msgs[i].data ELSE <<>>)
         \o deliveredData(msgs, st, i + 1)

\* The data of the chunks a stream emitted, in order.
RECURSIVE receivedData(_, _)
receivedData(chunks, i) ==
  IF i > Len(chunks) THEN <<>> ELSE chunks[i] \o receivedData(chunks, i + 1)

\* The process has exited with this code: the 'exit' event carried it, or
\* the 'close' event that closeEvents holds did.
ExitedWith(s, code) ==
  \/ sub[s].os = "exited" /\ sub[s].exitEv.exitCode = code
  \/ out[s].closeEvents.kind # "none" /\ out[s].closeEvents.event.exitCode = code

C7_Terminal(s) ==
  LET o == out[s]
  IN  /\ o.result = "complete" =>
           /\ Len(o.delivered) > 0
           /\ o.delivered[Len(o.delivered)].kind = "exit"
           /\ exitMessages(o) = 1
           /\ o.err = NoErr
      /\ o.result = "error" => o.err # NoErr /\ exitMessages(o) = 0
      /\ o.result \in {"none", "unsub"} => o.err = NoErr /\ exitMessages(o) = 0

C7_NothingAfterTerminal ==
  \A s \in Subs :
    out[s].result # "none" =>
      /\ out'[s].result = out[s].result
      /\ out'[s].err = out[s].err
      /\ out'[s].delivered = out[s].delivered

\* C7: an observeProcess() sequence that ends by itself ends with exactly
\* one terminal event: either one 'exit' message, which is the last message
\* and is followed by completion, or one error and no 'exit' message; a
\* sequence that has not ended by itself has no 'exit' message, and after
\* the end no message is delivered and the outcome does not change.
C7_OneTerminalEvent ==
  /\ [](\A s \in Subs : C7_Terminal(s))
  /\ [][C7_NothingAfterTerminal]_vars

\* The sequence completed after stdout or stderr messages.
C7_Witness ==
  \E s \in Subs :
    /\ api = "observeProcess"
    /\ out[s].result = "complete"
    /\ Len(out[s].delivered) > 1
    /\ out[s].delivered[1].kind \in Streams

\* C8: the 'exit' message or the ProcessExitError of observeProcess() comes
\* from the 'close' event and is delivered only after stdout and stderr have
\* both ended, and by then the subscriber has received all the data either
\* stream emitted, also when 'close' came before the end of the output.
C8_TerminalAfterOutput ==
  \A s \in Subs :
    (out[s].result = "complete" \/ out[s].err.name = "ProcessExitError") =>
      /\ sub[s].os = "closed"
      /\ out[s].closeEvents.kind # "none"
      /\ \A st \in Streams :
           /\ out[s].ended[st]
           /\ deliveredData(out[s].delivered, st, 1)
                = receivedData(out[s].recv[st], 1)

\* The 'close' event came first; output was delivered after it and before
\* the 'exit' message.
C8_Witness ==
  \E s \in Subs :
    /\ out[s].result = "complete"
    /\ Len(out[s].delivered) > out[s].deliveredAtClose + 1
    /\ out[s].recv["stdout"] # <<>>

\* C9 as stated: once the process has exited with code 0, the
\* observeProcess() stream does not end with an error.
C9_ExitZeroCompletes ==
  [][\A s \in Subs :
       (ExitedWith(s, 0) /\ out[s].result = "none") =>
         out'[s].result # "error"]_vars

C9_NoExitErrorForZero ==
  \A s \in Subs :
    /\ out[s].err.name = "ProcessExitError" => out[s].err.exitCode # 0
    /\ out[s].closeEvents.kind = "error" => out[s].closeEvents.event.exitCode # 0

C9_EndAfterExitZero ==
  \A s \in Subs :
    (ExitedWith(s, 0) /\ out[s].result = "none"
       /\ out'[s].result \notin {"none", "unsub"}) =>
      \/ /\ out'[s].result = "complete"
         /\ out'[s].err = NoErr
         /\ out'[s].delivered[Len(out'[s].delivered)]
              = [kind |-> "exit", exitCode |-> 0, signal |-> Null]
      \/ /\ out'[s].result = "error"
         /\ out'[s].err.name = "MaxBufferExceededError"

\* C9: for a process that exits with code 0 under the default isExitError,
\* no ProcessExitError is ever raised, and the observeProcess() stream,
\* when it ends by itself after that exit, either completes without error
\* with the exit message of exitCode 0 as its last message, or fails with a
\* MaxBufferExceededError because of output that came after the exit.
C9_ExitZeroCompletesUnlessOverflow ==
  /\ []C9_NoExitErrorForZero
  /\ [][C9_EndAfterExitZero]_vars

\* The stream of a process that exited with code 0 has completed.
C9_Witness ==
  \E s \in Subs :
    /\ out[s].result = "complete"
    /\ out[s].closeEvents.kind = "next"
    /\ out[s].delivered[Len(out[s].delivered)].exitCode = 0

NonZeroCodes == {1, 2}

\* C10 as stated: once the process has exited with a non-zero code, the
\* observeProcess() stream ends by itself only with the ProcessExitError of
\* that code.
C10_NonZeroEndsWithExitError ==
  [][\A s \in Subs : \A code \in NonZeroCodes :
       (ExitedWith(s, code) /\ out[s].result = "none"
          /\ out'[s].result \notin {"none", "unsub"}) =>
         /\ out'[s].err.name = "ProcessExitError"
         /\ out'[s].err.exitCode = code]_vars

C10_ExitErrorOfClose ==
  \A s \in Subs :
    out[s].err.name = "ProcessExitError" =>
      /\ out[s].closeEvents.kind = "error"
      /\ out[s].err.exitCode = out[s].closeEvents.event.exitCode
      /\ out[s].err.signal = out[s].closeEvents.event.signal
      /\ exitMessages(out[s]) = 0

C10_EndAfterNonZeroExit ==
  \A s \in Subs : \A code \in NonZeroCodes :
    (ExitedWith(s, code) /\ out[s].result = "none"
       /\ out'[s].result \notin {"none", "unsub"}) =>
      /\ out'[s].result = "error"
      /\ exitMessages(out'[s]) = 0
      /\ \/ /\ out'[s].err.name = "ProcessExitError"
            /\ out'[s].err.exitCode = code
            /\ out'[s].err.signal = Null
         \/ out'[s].err.name = "MaxBufferExceededError"

\* C10: for a process that exits with a non-zero code under the default
\* isExitError, no 'exit' message is emitted, and the observeProcess()
\* stream, when it ends by itself after that exit, ends with a
\* ProcessExitError whose exitCode is the code of the exit and whose signal
\* is the signal of the close event, or with a MaxBufferExceededError
\* because of output that came after the exit.
C10_NonZeroEndsWithExitErrorUnlessOverflow ==
  /\ []C10_ExitErrorOfClose
  /\ [][C10_EndAfterNonZeroExit]_vars

\* The stream of a process that exited with code 2 has ended with the
\* ProcessExitError of code 2.
C10_Witness ==
  \E s \in Subs :
    /\ out[s].result = "error"
    /\ out[s].err.name = "ProcessExitError"
    /\ out[s].err.exitCode = 2

\* What the isExitError in force answers for an exit event.
C11_Fails(exit) ==
  IF opts.isExitError = "never" THEN FALSE
  ELSE IF opts.isExitError = "onSignal" THEN exit.signal # Null
  ELSE exit.exitCode # 0

received(o, st) == Len(receivedData(o.recv[st], 1))

C12_ErrorNamesExceedingStream ==
  \A s \in Subs :
    /\ out[s].err.name = "MaxBufferExceededError" =>
         /\ opts.maxBuffer # NoLimit
         /\ out[s].err.streamName \in Streams
         /\ received(out[s], out[s].err.streamName) > opts.maxBuffer
    /\ \A st \in Streams :
         (opts.maxBuffer # NoLimit /\ received(out[s], st) > opts.maxBuffer) =>
           (out[s].result = "error" /\ out[s].err = MaxBufferExceededError(st))

C12_ExceedingEndsAndKills ==
  \A s \in Subs : \A st \in Streams :
    (/\ opts.maxBuffer # NoLimit
     /\ received(out[s], st) <= opts.maxBuffer
     /\ received(out'[s], st) > opts.maxBuffer) =>
      /\ out[s].result = "none"
      /\ out'[s].result = "error"
      /\ out'[s].err = MaxBufferExceededError(st)
      /\ sub[s].os = "running" =>
           /\ sub'[s].killCalls = sub[s].killCalls + 1
           /\ sub'[s].wasKilled
           /\ sub'[s].spawnEnd = "unsub"
      /\ sub[s].os # "running" => sub'[s].killCalls = sub[s].killCalls

\* C12: with maxBuffer = B, the 'data' event that takes the data received
\* on stdout, or on stderr, above B ends the observeProcess() stream at
\* once with the MaxBufferExceededError of that stream, and requests the
\* kill of the process if it has not exited; the error is raised for no
\* other reason.
C12_MaxBufferExceeded ==
  /\ []C12_ErrorNamesExceedingStream
  /\ [][C12_ExceedingEndsAndKills]_vars

\* stderr exceeded maxBuffer while the process ran: the error names stderr
\* and the kill was requested.
C12_Witness ==
  \E s \in Subs :
    /\ out[s].err = MaxBufferExceededError("stderr")
    /\ received(out[s], "stderr") = opts.maxBuffer + 1
    /\ sub[s].killCalls = 1

\* ------------------------------------------------ claims on the tree kill
\* The depth of pid below root in a forest: 0 for root itself, -1 for
\* a process that is not root or one of its transitive children.
RECURSIVE depthBelow(_, _, _, _)
depthBelow(processes, root, pid, k) ==
  IF pid = root THEN 0
  ELSE IF pid \notin listedPids(processes) \/ k = 0 THEN -1
  ELSE LET d == depthBelow(processes, root, parentPidOf(processes, pid), k - 1)
       IN  IF d = -1 THEN -1 ELSE d + 1

depthOf(processes, root, pid) == depthBelow(processes, root, pid, Len(processes))

\* C14: on a forest, when a process of the snapshot has the pid, the list
\* getDescendantsOfProcess returns starts with that process, is ordered
\* by non-decreasing depth below it, and lists every other process after
\* its parent.
C14_OrderedByDepth ==
  LET d == ps.descendants
      depth(i) == depthOf(ps.processes, ps.pid, d[i].pid)
  IN  (ps.phase = "done" /\ d # <<>>) =>
        /\ d[1].pid = ps.pid
        /\ \A i, j \in 1..Len(d) : i < j => depth(i) <= depth(j)
        /\ \A j \in 2..Len(d) : \E i \in 1..(j - 1) : d[i].pid = d[j].parentPid

\* A chain of three processes whose rows are listed child first.
C14_Witness ==
  /\ ps.phase = "done"
  /\ Len(ps.descendants) = 3
  /\ depthOf(ps.processes, ps.pid, ps.descendants[3].pid) = 2
  /\ ps.processes[1] = ps.descendants[3]
  /\ ps.processes[3] = ps.descendants[1]

\* C15: on a forest, getDescendantsOfProcess(pid) returns the rows of the
\* process with that pid and of all its transitive children, each once and
\* no other; it returns nothing when no process of the snapshot has the pid.
C15_ExactlyTheDescendants ==
  LET d == ps.descendants
      rows == {ps.processes[i] : i \in 1..Len(ps.processes)}
  IN  ps.phase = "done" =>
        /\ ps.pid \notin listedPids(ps.processes) => d = <<>>
        /\ ps.pid \in listedPids(ps.processes) =>
             {d[i] : i \in 1..Len(d)}
               = {r \in rows : depthOf(ps.processes, ps.pid, r.pid) # -1}
        /\ \A i, j \in 1..Len(d) : d[i] = d[j] => i = j

\* A process with a child and a grandchild, and nothing else.
C15_Witness ==
  /\ ps.phase = "done"
  /\ Len(ps.processes) = 3
  /\ Len(ps.descendants) = 3
  /\ ps.descendants[2].parentPid = ps.pid
  /\ ps.descendants[3].parentPid = ps.descendants[2].pid

\* The snapshot of a tree kill of the process of s while it runs: its own
\* row and the other processes.
treeTable(s) ==
  << [parentPid |-> HostPid, pid |-> sub[s].pid] >> \o ps.processes

\* The processes of the tree of s in that snapshot.
treePids(s) ==
  {p \in listedPids(treeTable(s)) : depthOf(treeTable(s), sub[s].pid, p) # -1}

\* C13: in a POSIX tree kill no process is signalled twice, only processes
\* of the tree are signalled, a child is signalled before its parent, and
\* the root is signalled last.
C13_ChildrenBeforeParents ==
  \A s \in Subs :
    LET killed == sub[s].killed IN
    /\ \A i, j \in 1..Len(killed) :
         /\ killed[i] = killed[j] => i = j
         /\ (killed[i] # sub[s].pid
               /\ parentPidOf(treeTable(s), killed[i]) = killed[j]) => i < j
    /\ \A i \in 1..Len(killed) :
         /\ killed[i] \in treePids(s)
         /\ killed[i] = sub[s].pid => i = Len(killed)

\* The tree root -> A -> B was killed: B, then A, then the root.
C13_Witness ==
  \E s \in Subs :
    /\ Len(sub[s].killed) = 3
    /\ sub[s].killed[3] = sub[s].pid
    /\ parentPidOf(treeTable(s), sub[s].killed[1]) = sub[s].killed[2]
    /\ parentPidOf(treeTable(s), sub[s].killed[2]) = sub[s].pid

\* C16: in a tree kill whose process.kill calls answer only success or
\* ESRCH (the process has exited since the snapshot), every process of the
\* tree, the root last, is signalled and the tree kill succeeds.
C16_EsrchDoesNotStopTheKill ==
  \A s \in Subs :
    (sub[s].psRoot = "listed"
       /\ \A i \in 1..Len(sub[s].answers) : sub[s].answers[i] \in {"ok", "ESRCH"}) =>
      /\ sub[s].killJob = "resolved"
      /\ {sub[s].killed[i] : i \in 1..Len(sub[s].killed)} = treePids(s)
      /\ sub[s].killed[Len(sub[s].killed)] = sub[s].pid
      /\ sub[s].signals = 1

\* The deepest process of a chain of three had exited; the two above it
\* were signalled all the same.
C16_Witness ==
  \E s \in Subs :
    /\ sub[s].psRoot = "listed"
    /\ sub[s].answers = <<"ESRCH", "ok", "ok">>
    /\ sub[s].killJob = "resolved"
    /\ parentPidOf(treeTable(s), sub[s].killed[1]) = sub[s].killed[2]

\* ------------------------- claims on runCommand and runCommandDetailed
\* C17: when its observeProcess() ends with a ProcessExitError,
\* runCommandDetailed() emits no value and ends with a ProcessExitError
\* whose stdout and stderr are the concatenations, in order, of all the
\* data received on stdout and on stderr, and whose exitCode, signal and
\* process are those of the error of observeProcess().
C17_ExitErrorCarriesAllOutput ==
  \A s \in Subs :
    LET o == out[s]
        r == runCommandDetailed(o)
    IN  o.err.name = "ProcessExitError" =>
          /\ r.result = "error"
          /\ r.values = <<>>
          /\ r.err.name = "ProcessExitError"
          /\ r.err.stdout = receivedData(o.recv["stdout"], 1)
          /\ r.err.stderr = receivedData(o.recv["stderr"], 1)
          /\ r.err.exitCode = o.err.exitCode
          /\ r.err.signal = o.err.signal
          /\ r.err.process = o.err.process

\* The process failed after output on both streams.
C17_Witness ==
  \E s \in Subs :
    /\ out[s].err.name = "ProcessExitError"
    /\ runCommandDetailed(out[s]).err.stdout # <<>>
    /\ runCommandDetailed(out[s]).err.stderr # <<>>

\* C18: when its observeProcess() completes, runCommand() has emitted
\* exactly one value, the concatenation in arrival order of all the stdout
\* data, and completes; runCommandDetailed() has emitted exactly one value,
\* with that stdout, the concatenation of all the stderr data and the
\* exitCode of the exit message.  Neither emits a value otherwise.
C18_OneValueOnSuccess ==
  \A s \in Subs :
    LET o == out[s]
        d == runCommandDetailed(o)
        r == runCommand(o)
    IN  /\ o.result = "complete" =>
             /\ r.result = "complete" /\ r.err = NoErr
             /\ r.values = << receivedData(o.recv["stdout"], 1) >>
             /\ d.result = "complete" /\ d.err = NoErr
             /\ d.values =
                  << [stdout |-> receivedData(o.recv["stdout"], 1),
                      stderr |-> receivedData(o.recv["stderr"], 1),
                      exitCode |-> o.delivered[Len(o.delivered)].exitCode] >>
        /\ o.result # "complete" => (r.values = <<>> /\ d.values = <<>>)

\* The process succeeded after output on both streams.
C18_Witness ==
  \E s \in Subs :
    /\ out[s].result = "complete"
    /\ runCommand(out[s]).values[1] # <<>>
    /\ runCommandDetailed(out[s]).values[1].stderr # <<>>
    /\ runCommandDetailed(out[s]).values[1].exitCode = 0

\* ------------------------------------- claims on the accumulated stderr
\* The cap in force on the accumulated stderr.
stderrCap ==
  IF opts.exitErrorBufferSize # NoSize THEN opts.exitErrorBufferSize ELSE 2000

isPrefix(a, b) == Len(a) <= Len(b) /\ SubSeq(b, 1, Len(a)) = a

C19_Capped ==
  \A s \in Subs :
    /\ Len(out[s].acc) <= stderrCap
    /\ out[s].closeEvents.kind # "none" => Len(out[s].closeEvents.stderr) <= stderrCap
    /\ out[s].err.name = "ProcessExitError" => Len(out[s].err.stderr) <= stderrCap

C19_AppendOnly ==
  \A s \in Subs :
    /\ isPrefix(out[s].acc, out'[s].acc)
    /\ Len(out[s].acc) = stderrCap => out'[s].acc = out[s].acc

\* C19: the stderr accumulated by getOutputStream is never longer than
\* exitErrorBufferSize (2000 when the option is not given); every new value
\* extends the previous one, and a value of the full length never changes;
\* the stderr of a ProcessExitError of observeProcess() is never longer
\* than that either.
C19_AccumulatedStderrCapped ==
  /\ []C19_Capped
  /\ [][C19_AppendOnly]_vars

\* More stderr than the cap was received and the exit error carries
\* exactly the cap.
C19_Witness ==
  \E s \in Subs :
    /\ out[s].err.name = "ProcessExitError"
    /\ received(out[s], "stderr") > stderrCap
    /\ Len(out[s].err.stderr) = stderrCap

\* The stderr messages delivered before the 'close' event.
stderrBeforeClose(o) ==
  deliveredData(SubSeq(o.delivered, 1, o.deliveredAtClose), "stderr", 1)

lastChars(str, n) == SubSeq(str, Len(str) - n + 1, Len(str))

\* C20 as stated: after more than N characters of stderr, the stderr of
\* the ProcessExitError is the last N characters written to stderr.
C20_LastCharacters ==
  \A s \in Subs :
    (out[s].err.name = "ProcessExitError"
       /\ received(out[s], "stderr") > stderrCap) =>
      out[s].err.stderr
        = lastChars(receivedData(out[s].recv["stderr"], 1), stderrCap)

\* C20 as amended: the stderr of the ProcessExitError is the first N
\* characters of the stderr messages delivered before the 'close' event;
\* when no message came after that event, these are the first N
\* characters the process wrote to stderr.
C20_FirstCharacters ==
  \A s \in Subs :
    out[s].err.name = "ProcessExitError" =>
      /\ out[s].err.stderr = slice(stderrBeforeClose(out[s]), 0, stderrCap)
      /\ out[s].deliveredAtClose = Len(out[s].delivered) =>
           out[s].err.stderr
             = slice(receivedData(out[s].recv["stderr"], 1), 0, stderrCap)

\* More than N characters of stderr, all before the 'close' event: the
\* error carries the first N, which are not the last N.
C20_Witness ==
  \E s \in Subs :
    /\ out[s].err.name = "ProcessExitError"
    /\ received(out[s], "stderr") > stderrCap
    /\ out[s].deliveredAtClose = Len(out[s].delivered)
    /\ out[s].err.stderr
         # lastChars(receivedData(out[s].recv["stderr"], 1), stderrCap)

\* ------------------------------------------------------------------- C21
\* A process that is still running has not completed its spawn() stream,
\* and nothing the subscriber of observeProcess() receives, nor what
\* closeEvents replays, comes from a SIGUSR1 event.
C21_Usr1EndsNothing ==
  \A s \in Subs :
    /\ sub[s].os = "running" => sub[s].spawnEnd # "complete"
    /\ out[s].closeEvents.event.signal # "SIGUSR1"
    /\ out[s].err.name = "ProcessExitError" => out[s].err.signal # "SIGUSR1"
    /\ \A i \in 1..Len(out[s].delivered) :
         out[s].delivered[i].kind = "exit" =>
           out[s].delivered[i].signal # "SIGUSR1"

\* The real exit of the process completes a live spawn() stream, and its
\* 'close' is what closeEvents keeps, whatever SIGUSR1 events came before.
C21_RealExitStillEnds ==
  [][\A s \in Subs :
       /\ (sub[s].phase = "live" /\ sub[s].os = "running"
             /\ sub'[s].os = "exited")
            => (sub'[s].spawnEnd = "complete" /\ sub'[s].killCalls = 0)
       /\ (out[s].inner = "live" /\ sub[s].os = "exited"
             /\ sub'[s].os = "closed")
            => (/\ out'[s].closeEvents.kind # "none"
                /\ out'[s].closeEvents.event = sub[s].exitEv)]_vars

\* C21: an 'exit' or 'close' event with signal SIGUSR1 does not end the
\* stream, yields no exit message and no ProcessExitError, and leaves the
\* single terminal event to the real exit and close that follow.
C21_Usr1IsNotAnExit == []C21_Usr1EndsNothing /\ C21_RealExitStillEnds

C21_Witness ==
  \E s \in Subs :
    /\ sub[s].signalled = {"exit", "close"}
    /\ sub[s].spawnEnd = "complete" /\ sub[s].os = "closed"
    /\ out[s].result = "complete"
    /\ out[s].delivered # <<>>
    /\ out[s].delivered[Len(out[s].delivered)].kind = "exit"

\* ------------------------------------------------------------------- C22
\* Every call on proc.stdin is made with the 'error' and 'exit' listeners
\* attached; the writes carry the strings of the input in their order;
\* end() is the last call, made once, exactly when the input completed.
C22_StdinCalls ==
  \A s \in Subs :
    LET w == sub[s].stdin
    IN  /\ \A i \in 1..Len(w) :
             /\ {"error", "exit"} \subseteq w[i].listeners
             /\ w[i].op = "write" => w[i].data = i
             /\ w[i].op = "end" => i = Len(w)
        /\ sub[s].input = "done" <=> (w # <<>> /\ w[Len(w)].op = "end")
        /\ (opts.input = "string" /\ sub[s].proc # 0) =>
             (Len(w) = 2 /\ w[1].op = "write")

\* The completion of the input leaves the stream as it was, and no call is
\* made on proc.stdin after end().
C22_InputDoesNotEndTheStream ==
  [][\A s \in Subs :
       /\ (sub[s].input = "open" /\ sub'[s].input = "done") =>
            (sub'[s].phase = "live" /\ sub'[s].killCalls = 0)
       /\ sub[s].input = "done" => sub'[s].stdin = sub[s].stdin]_vars

\* C22: the input is written to stdin in order, after the listeners are
\* attached; stdin.end() is called once, last, when the input completes;
\* the completion of the input does not complete the stream.
C22_InputWrittenThenEnded == []C22_StdinCalls /\ C22_InputDoesNotEndTheStream

C22_Witness ==
  \E s \in Subs :
    /\ opts.input = "observable"
    /\ Len(sub[s].stdin) = MaxInput + 1 /\ sub[s].input = "done"
    /\ sub[s].phase = "live" /\ sub[s].os = "running"

\* ------------------------------------------------------------------- C23
\* The kill of subscription s has failed: proc.kill() threw, the
\* process-table query failed, a kill of the tree threw, or taskkill did.
KillFailed(s) == sub[s].killJob = "rejected"

\* C23: no failure of the kill escapes killProcess: each is logged, once,
\* and a stream that was unsubscribed delivers no error.
C23_UnsubscribeNeverRaises ==
  \A s \in Subs :
    /\ ~sub[s].raised
    /\ sub[s].logged = (IF KillFailed(s) THEN 1 ELSE 0)
    /\ sub[s].spawnEnd = "unsub" => sub[s].spawnErr = NoErr

C23_Witness ==
  \E s \in Subs :
    /\ sub[s].spawnEnd = "unsub" /\ KillFailed(s) /\ sub[s].logged = 1
    /\ opts.killTreeSignal = "SIGBOGUS" /\ ~killTree

\* ------------------------------------------------------------------- C24
\* The command text of the last row of the args table with that pid.
argsOf(argsTable, pid) ==
  LET hits == {i \in 1..Len(argsTable) : argsTable[i].pid = pid}
  IN  joinSpace(argsTable[CHOOSE i \in hits : \A j \in hits : j <= i].command)

\* C24: parsePsOutput returns one entry per row, in row order and none for
\* a header: parentPid and pid are the first two columns, command is the
\* other columns joined by single spaces, commandWithArgs is the command
\* text of the args row with the same pid, or command without such a row.
C24_ParsedRows ==
  ps.phase = "parsed" =>
    /\ Len(ps.parsed) = Len(ps.table)
    /\ \A i \in 1..Len(ps.table) :
         LET row == ps.table[i]
             entry == ps.parsed[i]
         IN  /\ entry.parentPid = row.parentPid
             /\ entry.pid = row.pid
             /\ entry.command = joinSpace(row.command)
             /\ entry.commandWithArgs =
                  IF \E j \in 1..Len(ps.argsTable) : ps.argsTable[j].pid = row.pid
                    THEN argsOf(ps.argsTable, row.pid)
                    ELSE entry.command

C24_Witness ==
  /\ ps.phase = "parsed" /\ ps.argsGiven
  /\ Len(ps.parsed) = 2 /\ Len(ps.argsTable) = 1
  /\ ps.parsed[1].pid = 23 /\ ps.parsed[2].pid = 1
  /\ ps.parsed[1].commandWithArgs # ps.parsed[1].command
  /\ ps.parsed[2].commandWithArgs = ps.parsed[2].command
  /\ Len(ps.parsed[2].command) = 5

\* ------------------------------------------------------------------- C25
\* C25 as stated: without a maxBuffer of the caller, a stream that has
\* emitted more than 100 MiB has raised the MaxBufferExceededError, under
\* observeProcess() as under runCommand() and runCommandDetailed().
C25_DefaultLimitEverywhere ==
  \A s \in Subs : \A st \in Streams :
    out[s].totalSize[st] > 104857600 =>
      (out[s].result = "error" /\ out[s].err.name = "MaxBufferExceededError")

\* C25 as amended: without a maxBuffer of the caller, runCommand() and
\* runCommandDetailed() limit each of stdout and stderr to 104857600: the
\* MaxBufferExceededError of a stream is raised exactly when that stream
\* has emitted more.  observeProcess() limits neither and never raises it.
C25_DefaultLimitOfRunCommand ==
  \A s \in Subs :
    /\ DEFAULT_MAX_BUFFER = 104857600
    /\ api \in {"runCommand", "runCommandDetailed"} =>
         /\ \A st \in Streams :
              out[s].totalSize[st] > 104857600
                <=> out[s].err = MaxBufferExceededError(st)
         /\ out[s].result = "error" <=> out[s].err.name = "MaxBufferExceededError"
    /\ api = "observeProcess" => (out[s].result = "none" /\ out[s].err = NoErr)

C25_Witness ==
  \E s \in Subs :
    /\ api = "runCommand"
    /\ out[s].err = MaxBufferExceededError("stderr")
    /\ out[s].totalSize["stderr"] = 104857601
    /\ out[s].totalSize["stdout"] = 104857600

\* ------------------------------------------------------------------- C26
\* The spawn() stream of s ends in this step and leaves its process running.
EndsWhileRunning(s) ==
  /\ sub[s].phase = "live" /\ sub'[s].phase = "ended"
  /\ sub'[s].os = "running"

\* C26 as stated: a spawn() stream that ends while its process runs
\* requests the kill of that process.
C26_KillOnEveryTermination ==
  [][\A s \in Subs : EndsWhileRunning(s) => sub'[s].killCalls = 1]_vars

\* What the code does: the kill is requested when the stream ends by a
\* timeout or by unsubscription.  When it ends by an 'error' event of the
\* running process, do({error}) sets `finished` and no kill is requested.
C26_KillUnlessErrorEvent ==
  [][\A s \in Subs :
       EndsWhileRunning(s) =>
         IF sub'[s].spawnEnd = "error"
              /\ sub'[s].spawnErr.name # "ProcessTimeoutError"
           THEN sub'[s].killCalls = 0 /\ sub'[s].finished /\ ~sub'[s].wasKilled
           ELSE sub'[s].killCalls = 1 /\ sub'[s].wasKilled]_vars

\* The stream has ended with the 'error' event of a running process, which
\* was not killed.
C26_Witness ==
  \E s \in Subs :
    /\ sub[s].phase = "ended" /\ sub[s].spawnEnd = "error"
    /\ sub[s].os = "running" /\ sub[s].pid # NoPid
    /\ sub[s].killCalls = 0 /\ sub[s].signals = 0

\* ------------------------------------------------------------------- C27
\* The POSIX tree kill of the process of s, requested by unsubscribing
\* while the process ran, has run its course.
TreeKillDone(s) ==
  /\ killTree /\ platform # "win32"
  /\ sub[s].spawnEnd = "unsub" /\ sub[s].pid # NoPid
  /\ sub[s].killJob \in {"resolved", "rejected"}

attempts(s, p) ==
  Cardinality({i \in 1..Len(sub[s].killed) : sub[s].killed[i] = p})

UnsubscribedBeforeSpawn(s) == sub[s].spawnEnd = "unsub" /\ ~sub[s].wasKilled

C28_NothingSpawned ==
  \A s \in Subs :
    UnsubscribedBeforeSpawn(s) =>
      /\ sub[s].phase = "ended"
      /\ sub[s].proc = 0 /\ sub[s].pid = NoPid /\ sub[s].os = "none"
      /\ sub[s].killCalls = 0 /\ sub[s].signals = 0 /\ sub[s].taskkills = 0

C28_UnsubscribeWhileWaiting ==
  [][\A s \in Subs :
       /\ (sub[s].phase = "waitEnv" /\ sub'[s].spawnEnd = "unsub") =>
            (~shellEnvLoaded /\ handles' = handles /\ UnsubscribedBeforeSpawn(s)')
       /\ UnsubscribedBeforeSpawn(s) => sub'[s] = sub[s]]_vars

\* C28: a subscription that is unsubscribed before the shell environment
\* is loaded never gets a process, also when the environment is loaded
\* later, and no kill is requested for it.
C28_NoSpawnAfterEarlyUnsubscribe ==
  []C28_NothingSpawned /\ C28_UnsubscribeWhileWaiting

\* The environment was loaded after s was unsubscribed; another
\* subscription that was still waiting got its process.
C28_Witness ==
  \E s, t \in Subs :
    /\ shellEnvLoaded
    /\ UnsubscribedBeforeSpawn(s)
    /\ sub[t].proc # 0 /\ sub[t].phase = "live"
    /\ handles = 1

\* ------------------------------------------------------------------- C29
\* The signals that end a process: those of its exit events.
EndSignals == {ev.signal : ev \in {e \in ObservedExitEvents : e.exitCode = NoCode}}

\* The process of s was terminated by signal sig: its 'exit' event said so,
\* or the 'close' event that closeEvents holds did.
ExitedBySignal(s, sig) ==
  \/ sub[s].os = "exited" /\ sub[s].exitEv.signal = sig
       /\ sub[s].exitEv.exitCode = NoCode
  \/ out[s].closeEvents.kind # "none" /\ out[s].closeEvents.event.signal = sig
       /\ out[s].closeEvents.event.exitCode = NoCode

\* C29 as stated: once the process was terminated by a signal, the
\* observeProcess() stream ends by itself only with the ProcessExitError of
\* a null exit code and that signal.
C29_SignalEndsWithExitError ==
  [][\A s \in Subs : \A sig \in EndSignals :
       (ExitedBySignal(s, sig) /\ out[s].result = "none"
          /\ out'[s].result \notin {"none", "unsub"}) =>
         /\ out'[s].err.name = "ProcessExitError"
         /\ out'[s].err.exitCode = NoCode
         /\ out'[s].err.signal = sig]_vars

C29_SignalClassifiedAsFailure ==
  \A s \in Subs :
    /\ (out[s].closeEvents.kind # "none"
          /\ out[s].closeEvents.event.exitCode = NoCode) =>
         /\ out[s].closeEvents.kind = "error"
         /\ out[s].closeEvents.event.signal \in EndSignals
    /\ \A i \in 1..Len(out[s].delivered) :
         out[s].delivered[i].kind = "exit" =>
           (out[s].delivered[i].signal = Null
              /\ out[s].delivered[i].exitCode # NoCode)

C29_EndAfterSignal ==
  \A s \in Subs : \A sig \in EndSignals :
    (ExitedBySignal(s, sig) /\ out[s].result = "none"
       /\ out'[s].result \notin {"none", "unsub"}) =>
      /\ out'[s].result = "error"
      /\ \/ /\ out'[s].err.name = "ProcessExitError"
            /\ out'[s].err.exitCode = NoCode
            /\ out'[s].err.signal = sig
         \/ out'[s].err.name = "MaxBufferExceededError"

\* C29 as amended: under the default isExitError, the close event of a
\* process terminated by a signal is classified as a failure and no exit
\* message is emitted for it; the observeProcess() stream, when it ends by
\* itself after that, ends with the ProcessExitError of a null exit code
\* and that signal, or with a MaxBufferExceededError because of output
\* that came after the exit.
C29_SignalEndsWithExitErrorUnlessOverflow ==
  /\ []C29_SignalClassifiedAsFailure
  /\ [][C29_EndAfterSignal]_vars

C29_Witness ==
  \E s \in Subs :
    /\ out[s].result = "error"
    /\ out[s].err.name = "ProcessExitError"
    /\ out[s].err.exitCode = NoCode /\ out[s].err.signal = "SIGTERM"

\* ------------------------------------------------------------------- C30
\* Each stream has its own count, the amount of data it has emitted, and
\* the error of a stream is raised only with that count above maxBuffer.
C30_OwnTotal ==
  \A s \in Subs : \A st \in Streams :
    /\ out[s].totalSize[st] = received(out[s], st)
    /\ (opts.maxBuffer = NoLimit \/ out[s].totalSize[st] <= opts.maxBuffer) =>
         out[s].err # MaxBufferExceededError(st)

\* The error is raised by the 'data' event that takes the count of its
\* stream from at most maxBuffer to above it.
C30_RaisedByTheExceedingChunk ==
  \A s \in Subs : \A st \in Streams :
    (out[s].result = "none" /\ out'[s].err = MaxBufferExceededError(st)) =>
      /\ out[s].totalSize[st] <= opts.maxBuffer
      /\ out'[s].totalSize[st] > opts.maxBuffer
      /\ \A other \in Streams \ {st} :
           out'[s].totalSize[other] = out[s].totalSize[other]

\* C30: stdout and stderr are counted separately and the check is strict:
\* a stream that has emitted at most maxBuffer raises no
\* MaxBufferExceededError, whatever the other stream has emitted, and the
\* error is raised at the first chunk that takes a stream above maxBuffer.
C30_SeparateStrictLimit ==
  /\ []C30_OwnTotal
  /\ [][C30_RaisedByTheExceedingChunk]_vars

\* One stream emitted exactly maxBuffer, both together more, and the
\* stream completed.
C30_Witness ==
  \E s \in Subs :
    /\ opts.maxBuffer # NoLimit
    /\ received(out[s], "stdout") = opts.maxBuffer
    /\ received(out[s], "stderr") > 0
    /\ out[s].result = "complete"

\* ------------------------------------ claims on the order of the output
\* The messages of stream st among the messages delivered to s.
messagesOf(o, st) ==
  LET kept == {i \in 1..Len(o.delivered) : o.delivered[i].kind = st}
      RECURSIVE pick(_)
      pick(i) == IF i > Len(o.delivered) THEN <<>>
                 ELSE (IF i \in kept THEN <<o.delivered[i].data>> ELSE <<>>)
                        \o pick(i + 1)
  IN  pick(1)

\* C31: the stdout messages carry the data of stdout in the order of its
\* arrival and the stderr messages the data of stderr in the order of its
\* arrival, nothing lost and nothing twice: before the terminal event the
\* delivered data of a stream is the data that arrived on it (less the
\* unfinished line splitByLines still holds), chunk for chunk when the output
\* is not split, and a completed sequence carries all of it.
C31_PerStreamOrder ==
  \A s \in Subs : \A st \in Streams :
    LET d == deliveredData(out[s].delivered, st, 1)
        r == receivedData(out[s].recv[st], 1)
    IN  /\ isPrefix(d, r)
        /\ out[s].result = "complete" => d = r
        /\ out[s].result = "none" =>
             /\ d \o (IF splitByLines THEN out[s].current[st] ELSE <<>>) = r
             /\ ~splitByLines => messagesOf(out[s], st) = out[s].recv[st]

\* Two different chunks arrived on stderr, were delivered as two messages
\* in that order, and the sequence completed.
C31_Witness ==
  \E s \in Subs :
    /\ Len(out[s].recv["stderr"]) = 2
    /\ out[s].recv["stderr"][1] # out[s].recv["stderr"][2]
    /\ messagesOf(out[s], "stderr") = out[s].recv["stderr"]
    /\ out[s].result = "complete"

\* ------------------------------------------ claims on the kind of kill
\* The signal proc.kill() is asked to send for the option killTreeSignal.
signalOfKill ==
  IF opts.killTreeSignal # Null /\ opts.killTreeSignal # ""
    THEN opts.killTreeSignal ELSE "SIGTERM"

\* A kill without killTreeWhenDone touches the process itself only: no
\* process-table query, no taskkill, no pid of a tree.
nonTreeKillStaysLocal ==
  opts.killTreeWhenDone # TRUE =>
    \A s \in Subs :
      /\ sub[s].killCalls <= 1
      /\ sub[s].signals <= sub[s].killCalls
      /\ sub[s].killJob \notin {"ps", "taskkill"}
      /\ sub[s].psRoot = "none"
      /\ sub[s].killed = <<>>
      /\ sub[s].taskkills = 0

\* C32 as stated: every non-tree kill sends exactly one signal, to the
\* process itself only and without a process-table query, and the signal is
\* killTreeSignal when that is non-null and non-empty, the default otherwise.
C32_OneSignalToTheProcess ==
  /\ []nonTreeKillStaysLocal
  /\ [][\A s \in Subs :
          (opts.killTreeWhenDone # TRUE
             /\ sub'[s].killCalls = sub[s].killCalls + 1) =>
            /\ sub'[s].signals = sub[s].signals + 1
            /\ sub'[s].lastSignal = signalOfKill]_vars

\* C32, amended: a non-tree kill touches the process itself only and never
\* queries the process table; it sends exactly one signal, killTreeSignal
\* when that is non-null and non-empty and the default otherwise, provided
\* killTreeSignal is the name of a signal: for an unknown name proc.kill()
\* throws, no signal is sent and the failed kill is logged.
C32_OneSignalUnlessUnknownName ==
  /\ []nonTreeKillStaysLocal
  /\ [][\A s \in Subs :
          (opts.killTreeWhenDone # TRUE
             /\ sub'[s].killCalls = sub[s].killCalls + 1) =>
            IF signalOfKill \in SignalNames
              THEN /\ sub'[s].signals = sub[s].signals + 1
                   /\ sub'[s].lastSignal = signalOfKill
                   /\ sub'[s].killJob = "resolved"
                   /\ sub'[s].logged = sub[s].logged
              ELSE /\ sub'[s].signals = sub[s].signals
                   /\ sub'[s].lastSignal = sub[s].lastSignal
                   /\ sub'[s].killJob = "rejected"
                   /\ sub'[s].logged = sub[s].logged + 1]_vars

\* A non-tree kill with killTreeSignal = 'SIGKILL' has sent that one signal.
C32_Witness ==
  \E s \in Subs :
    /\ opts.killTreeWhenDone = FALSE
    /\ opts.killTreeSignal = "SIGKILL"
    /\ sub[s].killCalls = 1
    /\ sub[s].signals = 1
    /\ sub[s].lastSignal = "SIGKILL"
    /\ sub[s].killJob = "resolved"

\* C33 as stated: in a tree kill with killTreeSignal set, the signal sent to
\* the process of the tree is killTreeSignal.
C33_TreeKillSendsKillTreeSignal ==
  \A s \in Subs :
    (/\ opts.killTreeWhenDone = TRUE
     /\ opts.killTreeSignal # Null
     /\ sub[s].signals > 0) =>
      sub[s].lastSignal = opts.killTreeSignal

\* What the tree kill does: killPid calls process.kill(pid) without a
\* signal, so every process of the tree gets the default signal whatever
\* killTreeSignal says, and on Windows taskkill /F sends no signal at all.
C33_TreeKillSendsDefaultSignal ==
  \A s \in Subs :
    opts.killTreeWhenDone = TRUE =>
      /\ sub[s].signals > 0 => (sub[s].lastSignal = "SIGTERM" /\ platform # "win32")
      /\ platform = "win32" => (sub[s].signals = 0 /\ sub[s].killed = <<>>)

\* A tree kill with killTreeSignal = 'SIGKILL' reached a descendant and the
\* process itself.
C33_Witness ==
  \E s \in Subs :
    /\ opts.killTreeWhenDone = TRUE
    /\ opts.killTreeSignal = "SIGKILL"
    /\ Len(sub[s].killed) >= 2
    /\ sub[s].signals = 1
    /\ sub[s].lastSignal = "SIGTERM"

\* ------------------------------- claims on the errors of stdio streams
\* C34: an 'error' event on stdin, stdout or stderr of the process, at any
\* time after the spawn (also after the subscriber has unsubscribed), never
\* ends the spawn() stream and never lacks a listener; it is logged exactly
\* when the spawn() stream is subscribed at that time.
C34_StreamErrorsNeverThrown ==
  /\ [](\A s \in Subs : ~sub[s].unhandled)
  /\ [][\A s \in Subs :
          sub'[s].streamErrors = sub[s].streamErrors + 1 =>
            /\ sub'[s].phase = sub[s].phase
            /\ sub'[s].spawnEnd = sub[s].spawnEnd
            /\ sub'[s].spawnErr = sub[s].spawnErr
            /\ sub'[s].emitted = sub[s].emitted
            /\ sub'[s].killCalls = sub[s].killCalls
            /\ Len(sub'[s].streamLog)
                 = Len(sub[s].streamLog) + (IF sub[s].phase = "live" THEN 1 ELSE 0)]_vars

\* A stream error of a subscribed spawn() stream was logged; a second one,
\* after the subscriber had unsubscribed, was handled without a log entry.
C34_Witness ==
  \E s \in Subs :
    /\ sub[s].spawnEnd = "unsub"
    /\ sub[s].streamErrors = 2
    /\ sub[s].streamLog = << "stdin" >>
    /\ ~sub[s].unhandled

\* ------------------------------- claims on unsubscribing getOutputStream
killRequests(r) == r.killCalls + r.signals + r.taskkills + Len(r.killed)

\* C35: the end of a subscription to getOutputStream() alone (the caller
\* unsubscribes, or the stream ends by itself) is never a kill or a signal:
\* it leaves the process and the spawn() stream as they are, and a kill is
\* requested only in the step that ends a subscribed spawn() stream.
C35_OutputUnsubscribeNeverKills ==
  [][\A s \in Subs :
       /\ (out[s].result = "none" /\ out'[s].result = "unsub") =>
            sub'[s] = sub[s]
       /\ sub'[s].killCalls > sub[s].killCalls =>
            (sub[s].phase = "live" /\ sub'[s].phase = "ended"
               /\ out'[s].result = out[s].result)
       /\ (killRequests(sub'[s]) > killRequests(sub[s])
             /\ sub'[s].killCalls = sub[s].killCalls) =>
            sub[s].killJob \in {"ps", "taskkill"}]_vars

\* The stream of getOutputStream() delivered output and was unsubscribed
\* from; the process runs on, its spawn() stream still subscribed.
C35_Witness ==
  \E s \in Subs :
    /\ out[s].result = "unsub"
    /\ Len(out[s].delivered) > 0
    /\ sub[s].phase = "live"
    /\ sub[s].os = "running"
    /\ killRequests(sub[s]) = 0
    /\ ~sub[s].wasKilled

\* -------------------------------------- claims on the Windows tree kill
\* C36: killWindowsProcessTree resolves when taskkill reports an error and
\* rejects when it reports none, so killProcess logs the tree kill that
\* succeeded as a failed kill and the one that failed not at all.
C36_TaskkillBranchesInverted ==
  \A s \in Subs :
    sub[s].taskkillError # "none" =>
      /\ platform = "win32" /\ sub[s].taskkills = 1
      /\ sub[s].taskkillError = Null =>
           (sub[s].killJob = "rejected" /\ sub[s].logged = 1)
      /\ sub[s].taskkillError # Null =>
           (sub[s].killJob = "resolved" /\ sub[s].logged = 0)

\* taskkill ended without an error and the kill was logged as failed.
C36_Witness ==
  \E s \in Subs :
    /\ platform = "win32"
    /\ opts.killTreeWhenDone = TRUE
    /\ sub[s].taskkillError = Null
    /\ sub[s].killJob = "rejected"
    /\ sub[s].logged = 1

\* ------------------------- claims on the end of getDescendantsOfProcess
\* C37 as stated: getDescendantsOfProcess returns for every snapshot, also
\* for one with a process listed as its own parent or with a cycle in the
\* parent relation below the root.
C37_WalkAlwaysReturns ==
  (ps.phase = "walking") ~> (ps.phase = "done")

\* What the loop does: it returns, with the result of the breadth-first
\* walk, exactly when the root is not its own ancestor in the snapshot (a
\* self-parent elsewhere in the table is never reached); for a root that is
\* its own ancestor the loop pushes entries for ever and never returns.
C37_WalkReturnsUnlessRootOnCycle ==
  /\ (ps.phase = "walking" /\ ~ownAncestor(ps.processes, ps.pid))
       ~> (ps.phase = "done")
  /\ [](ps.phase = "repeating" =>
          (ownAncestor(ps.processes, ps.pid) /\ ps.descendants # <<>>))
  /\ [](ps.phase = "done" =>
          /\ ~ownAncestor(ps.processes, ps.pid)
          /\ Len(ps.descendants) <= Len(ps.processes)
          /\ \A i, j \in 1..Len(ps.descendants) :
               ps.descendants[i].pid = ps.descendants[j].pid => i = j)

\* A walk returned the root and its child from a snapshot that also lists
\* pid 0 as its own parent.
C37_Witness ==
  /\ ps.phase = "done"
  /\ Len(ps.descendants) = 2
  /\ \E i \in 1..Len(ps.processes) :
       ps.processes[i].pid = 0 /\ ps.processes[i].parentPid = 0

\* ------------------------------------------- claims on the call history
\* The calls logged so far (the clock of the model ticks once per call).
callsLogged == now(loggedCalls) - 1

\* C38: loggedCalls never holds more than MAX_LOGGED_CALLS + 1 = 101
\* entries, and its last 50 entries (all of them while fewer calls were
\* logged) are the most recent calls in the order they were logged, the
\* stripped-history marker not among them.
C38_HistoryBounded ==
  LET n == Len(loggedCalls)
      k == IF callsLogged < NUM_PRESERVED_HISTORY_CALLS
             THEN callsLogged ELSE NUM_PRESERVED_HISTORY_CALLS
  IN  /\ n <= MAX_LOGGED_CALLS + 1
      /\ MAX_LOGGED_CALLS + 1 = 101
      /\ n >= k
      /\ \A i \in 1..k :
           /\ loggedCalls[n - k + i].command # StrippedMarker
           /\ loggedCalls[n - k + i].time = callsLogged - k + i

\* The history was stripped and has grown back to 101 entries, the marker
\* at its head.
C38_Witness ==
  /\ Len(loggedCalls) = MAX_LOGGED_CALLS + 1
  /\ loggedCalls[1].command = StrippedMarker
  /\ callsLogged > MAX_LOGGED_CALLS + NUM_PRESERVED_HISTORY_CALLS

\* ------------------------------------------ claims on the SocketManager
SocketIds == 1..Len(manager.sockets)

\* Every socket that has not emitted 'close' is the entry of its clientId.
openSocketsMapped ==
  \A k \in SocketIds :
    manager.sockets[k].state # "closed" =>
      manager.socketByClientId[manager.sockets[k].clientId] = k

\* The entry of clientId c goes away only in the step in which its own
\* socket emits 'close', after the 'close' message for c was sent.
removedByOwnClose(c) ==
  (manager.socketByClientId[c] # NoSocket
     /\ manager'.socketByClientId[c] = NoSocket) =>
    LET k == manager.socketByClientId[c]
    IN  /\ manager.sockets[k].clientId = c
        /\ manager.sockets[k].state # "closed"
        /\ manager'.sockets[k].state = "closed"
        /\ manager'.sent = [manager.sent EXCEPT ![c]["close"] = @ + 1]

\* C39 as stated: after any messages and socket events, every socket that
\* has not emitted 'close' is the map's entry for its clientId, also when
\* two 'connection' messages carry the same clientId, and a clientId is
\* removed only by the 'close' of its own socket, once the 'close' message
\* for it was sent.
C39_OpenSocketsAreMapped ==
  /\ []openSocketsMapped
  /\ [][\A c \in ClientIds : removedByOwnClose(c)]_vars

\* No 'connection' message has carried a clientId that was in the map.
noClientIdReused ==
  \A k \in SocketIds : manager.sockets[k].replaced = NoSocket

\* What holds: as long as no 'connection' message carries a clientId that
\* is still in the map, the open sockets are the entries of their clientIds,
\* an entry is removed only by the 'close' of its own socket after its
\* 'close' message, and no handler throws.
C39_MappedUnlessClientIdReused ==
  /\ [](noClientIdReused => (openSocketsMapped /\ ~manager.thrown))
  /\ [][noClientIdReused' => \A c \in ClientIds : removedByOwnClose(c)]_vars

\* Of two sockets with clientIds of their own, one has closed and left the
\* map after its 'close' message; the other is open and mapped.
C39_Witness ==
  /\ noClientIdReused
  /\ Len(manager.sockets) = 2
  /\ manager.sockets[1].state = "closed"
  /\ manager.socketByClientId[manager.sockets[1].clientId] = NoSocket
  /\ manager.sent[manager.sockets[1].clientId]["close"] = 1
  /\ manager.sockets[2].state = "open"
  /\ manager.socketByClientId[manager.sockets[2].clientId] = 2

\* C40: a 'data', 'error', 'end' or 'close' message for a clientId without
\* a socket in the map changes nothing: no socket is created, the map and
\* the sockets stay as they are, nothing is sent, nothing is thrown.
C40_MessageWithoutSocketIsIgnored ==
  [][(/\ manager'.received = manager.received + 1
      /\ manager'.last.event \in {"data", "error", "end", "close"}
      /\ manager.socketByClientId[manager'.last.clientId] = NoSocket) =>
       /\ manager'.sockets = manager.sockets
       /\ manager'.socketByClientId = manager.socketByClientId
       /\ manager'.sent = manager.sent
       /\ manager'.thrown = manager.thrown]_vars

\* A 'data' message arrived for a clientId whose socket had closed and
\* left the map.
C40_Witness ==
  /\ manager.last.event = "data"
  /\ manager.last.socket = NoSocket
  /\ manager.socketByClientId[manager.last.clientId] = NoSocket
  /\ \E k \in SocketIds :
       /\ manager.sockets[k].clientId = manager.last.clientId
       /\ manager.sockets[k].state = "closed"
       /\ manager.sockets[k].written = 0
  /\ ~manager.thrown

====
